---- MODULE Spec2Model ----
(***************************************************************************)
(* Atomic wait / notify engine (atomic_wait.cpp, xatomic_wait.h) and the   *)
(* thread-pool byte wait built on it, as a state machine.                  *)
(*                                                                         *)
(* Threads interleave at the granularity of the atomic operations and OS   *)
(* calls of the source: each atomic load, store, compare-exchange,         *)
(* fetch-add, SRW lock acquire/release, condition-variable sleep/wake and  *)
(* WaitOnAddress / WakeByAddress call is one step.  Memory is sequentially *)
(* consistent.  compare_exchange_weak is modelled without spurious         *)
(* failures: a spurious failure reloads _Local with the value it already   *)
(* holds and retries, which is a stuttering step.                          *)
(*                                                                         *)
(* The build modelled is the one with                                      *)
(* _ATOMIC_WAIT_ON_ADDRESS_STATICALLY_AVAILABLE == 0 (the run-time feature *)
(* detection and the SRW-lock fallback are compiled in) and the macro not  *)
(* defined for the #ifdef of _Atomic_wait_spin.                            *)
(***************************************************************************)
EXTENDS Integers, FiniteSets, Sequences, TLC

----------------------------------------------------------------------------
(* Bounds of the model *)

\* spin budget reported by __std_atomic_get_spin_count, in spin steps
SpinCount == 1
\* number of one-millisecond clock advances
MaxShortSteps == 2
\* number of ten-day clock advances
MaxLongSteps == 1
\* largest spin budget, in spin steps, of the specification of the pure functions
MaxSpinCount == 3

----------------------------------------------------------------------------
(* Program constants *)

_Wait_table_size_power == 8
_Wait_table_size == 2 ^ _Wait_table_size_power
_Wait_table_index_mask == _Wait_table_size - 1

\* enum _Atomic_spin_phase
_Atomic_wait_phase_mask == 255
_Atomic_spin_value_step == _Atomic_wait_phase_mask + 1
_Atomic_wait_phase_init_spin_count == 0
_Atomic_wait_phase_spin == 8
_Atomic_wait_phase_wait_locked == 1
_Atomic_wait_phase_wait_none == 2
_Atomic_wait_phase_wait_counter == 4
_Atomic_wait_phase_yield == 16
_Atomic_wait_phase_sleep == 32

\* enum class __std_atomic_api_level, in the order the comparisons of the
\* source rely on
__not_set == 0
__detecting == 1
__has_srwlock == 2
__has_wait_on_address == 3

_Ten_days == 864000000

\* Ticks are 64-bit and the OS timeout 32-bit in the source; the checker's
\* integers are 32-bit signed.  The two all-ones sentinels are represented
\* by the largest representable integer, which no tick value of the model
\* reaches (HorizonTime is far below it).
_Atomic_wait_no_timeout == 2147483647
INFINITE == 2147483647

\* last tick value the clock of the model reaches by its own steps; a pending
\* OS timer can take it further
HorizonTime == MaxLongSteps * _Ten_days + MaxShortSteps

----------------------------------------------------------------------------
(* Threads, addresses, values *)

Threads == {"w1", "w2", "n1", "n2", "a1", "a2"}
NoThread == "none"

\* watched addresses: X and Y select the same wait-table entry, Z another
AddrX == 16 * 256
AddrY == 48 * 256 + 32
AddrZ == 16 * 256 + 4
Addrs == {AddrX, AddrY, AddrZ}

\* largest byte value a notifier writes
MaxValue == 1
Values == 0 .. MaxValue

VARIABLES
    apiLevel,   \* _Wait_functions._Api_level
    pfn,        \* _Wait_functions._Pfn_*: TRUE when non-null
    symbols,    \* which of the three symbols GetProcAddress resolves (OS)
    mem,        \* the watched bytes
    counter,    \* _Wait_table_entry::_Counter, per entry
    lock,       \* _Wait_table_entry::_Lock: owner or NoThread
    cond,       \* _Wait_table_entry::_Condition: threads asleep on it
    woa,        \* threads blocked inside WaitOnAddress
    now,        \* GetTickCount64()
    ctx,        \* each waiter's _Atomic_wait_context_t
    loc,        \* each thread's position and locals
    cfg         \* what each thread was started to do (never changes)

vars == <<apiLevel, pfn, symbols, mem, counter, lock, cond, woa, now, ctx, loc, cfg>>

----------------------------------------------------------------------------
(* Bit operations on naturals *)

RECURSIVE BitXor(_, _)
BitXor(a, b) ==
    IF a = 0 THEN b
    ELSE IF b = 0 THEN a
    ELSE (((a % 2) + (b % 2)) % 2) + 2 * BitXor(a \div 2, b \div 2)

ShiftRight(a, n) == a \div (2 ^ n)

RECURSIVE BitOr(_, _)
BitOr(a, b) ==
    IF a = 0 THEN b
    ELSE IF b = 0 THEN a
    ELSE (IF a % 2 = 1 \/ b % 2 = 1 THEN 1 ELSE 0) + 2 * BitOr(a \div 2, b \div 2)

\* an entry selection without the final mask
_Atomic_wait_table_entry_NoMask(storage) ==
    LET i1 == BitXor(storage, ShiftRight(storage, _Wait_table_size_power * 2))
        i2 == BitXor(i1, ShiftRight(i1, _Wait_table_size_power))
    IN  i2

\* _Atomic_wait_table_entry: index of the entry an address selects
_Atomic_wait_table_entry(storage) ==
    LET i1 == BitXor(storage, ShiftRight(storage, _Wait_table_size_power * 2))
        i2 == BitXor(i1, ShiftRight(i1, _Wait_table_size_power))
    IN  i2 % _Wait_table_size

Entries == {_Atomic_wait_table_entry(a) : a \in Addrs}

Entry(t) == _Atomic_wait_table_entry(cfg[t].addr)

----------------------------------------------------------------------------
(* Pure functions of the source *)

\* a remaining-time computation that never reports an elapsed deadline
RemainingNeverElapses(deadline, current_time) == INFINITE

\* a remaining time without the clamp to ten days
_Get_remaining_wait_milliseconds_NoClamp(deadline, current_time) ==
    IF deadline = _Atomic_wait_no_timeout THEN INFINITE
    ELSE IF current_time >= deadline THEN 0
    ELSE deadline - current_time

\* _Get_remaining_wait_milliseconds, with GetTickCount64() passed in
_Get_remaining_wait_milliseconds(deadline, current_time) ==
    IF deadline = _Atomic_wait_no_timeout THEN INFINITE
    ELSE IF current_time >= deadline THEN 0
    ELSE IF deadline - current_time > _Ten_days THEN _Ten_days
    ELSE deadline - current_time

\* __std_atomic_wait_get_deadline
GetDeadline(timeout, current_time) ==
    IF timeout = _Atomic_wait_no_timeout THEN _Atomic_wait_no_timeout
    ELSE current_time + timeout

\* __std_atomic_get_spin_count as thread t sees it: the budget of the platform,
\* already shifted past the phase bits
GetSpinCount(t, is_direct) == cfg[t].spin * _Atomic_spin_value_step

PhaseOf(word) == word % _Atomic_spin_value_step
SpinValueOf(word) == word - PhaseOf(word)

\* whether the build defines _ATOMIC_WAIT_ON_ADDRESS_STATICALLY_AVAILABLE; this
\* is the build that looks WaitOnAddress up at run time (part_003, lines 77-198)
StaticallyAvailable == FALSE

\* a spin that ends one step early: it tests the budget left after the decrement
_Atomic_wait_spin_OneShort(word, is_direct, spin_count) ==
    LET loaded == IF PhaseOf(word) = _Atomic_wait_phase_init_spin_count
                  THEN BitOr(_Atomic_wait_phase_spin, spin_count)
                  ELSE word
    IN  IF PhaseOf(loaded) = _Atomic_wait_phase_spin
        THEN IF SpinValueOf(loaded) > _Atomic_spin_value_step
             THEN [word |-> loaded - _Atomic_spin_value_step, ret |-> TRUE]
             ELSE [word |-> _Atomic_wait_phase_wait_none, ret |-> FALSE]
        ELSE [word |-> word, ret |-> FALSE]

\* _Atomic_wait_spin: the new phase word and the result; spin_count is what the
\* call of __std_atomic_get_spin_count(_Is_direct) in line 67 returns
_Atomic_wait_spin(word, is_direct, spin_count) ==
    LET loaded == IF PhaseOf(word) = _Atomic_wait_phase_init_spin_count
                  THEN BitOr(_Atomic_wait_phase_spin, spin_count)
                  ELSE word
    IN  IF StaticallyAvailable /\ is_direct
        THEN [word |-> word, ret |-> FALSE]
        ELSE IF PhaseOf(loaded) = _Atomic_wait_phase_spin
        THEN IF SpinValueOf(loaded) # 0
             THEN [word |-> loaded - _Atomic_spin_value_step, ret |-> TRUE]
             ELSE [word |-> _Atomic_wait_phase_wait_none, ret |-> FALSE]
        ELSE [word |-> word, ret |-> FALSE]

\* the wake time of an OS wait started now with the given timeout
WakeTime(remaining) == IF remaining = INFINITE THEN INFINITE ELSE now + remaining

----------------------------------------------------------------------------
(* Thread bookkeeping *)

Pc(t) == loc[t].pc

Goto(t, p) == [loc EXCEPT ![t].pc = p]

\* a call of _Get_wait_functions that continues at k when it returns
CallGet(t, k) == [loc EXCEPT ![t].pc = "g_load", ![t].cont = k, ![t].local = __not_set]

\* the return of _Get_wait_functions; its locals die with the call
ReturnGet(t) ==
    [loc EXCEPT ![t].pc = loc[t].cont, ![t].cont = "none", ![t].local = __not_set,
                ![t].probe = FALSE]

\* abort(), or a call through a null entry point: the process ends and no
\* thread takes another step
Terminate == [w \in Threads |-> [loc[w] EXCEPT !.pc = "abort"]]

Aborted == \E t \in Threads : Pc(t) = "abort"

SharedUnchanged == UNCHANGED <<apiLevel, pfn, symbols, mem, counter, lock, cond, woa, now, cfg>>

----------------------------------------------------------------------------
(* _Get_wait_functions *)

\* a query that returns at once when it loads __detecting
GetLoad_ReturnOnDetecting(t) ==
    /\ Pc(t) = "g_load"
    /\ loc' = IF apiLevel < __detecting
              THEN [loc EXCEPT ![t].local = apiLevel, ![t].pc = "g_cas"]
              ELSE ReturnGet(t)
    /\ UNCHANGED ctx
    /\ SharedUnchanged

\* line 148: the acquire load and the test of line 149
GetLoad(t) ==
    /\ Pc(t) = "g_load"
    /\ loc' = IF apiLevel <= __detecting
              THEN [loc EXCEPT ![t].local = apiLevel, ![t].pc = "g_cas"]
              ELSE ReturnGet(t)
    /\ UNCHANGED ctx
    /\ SharedUnchanged

\* an exchange in place of the compare_exchange: the level is overwritten
\* whatever it holds
GetCas_Blind(t) ==
    /\ Pc(t) = "g_cas"
    /\ apiLevel' = __detecting
    /\ loc' = Goto(t, "g_probe")
    /\ UNCHANGED <<pfn, symbols, mem, counter, lock, cond, woa, now, ctx, cfg>>

\* lines 150-154: one compare_exchange_weak(_Local, __detecting) and the test after a failure
GetCas(t) ==
    /\ Pc(t) = "g_cas"
    /\ IF apiLevel = loc[t].local
       THEN /\ apiLevel' = __detecting
            /\ loc' = Goto(t, "g_probe")
       ELSE /\ apiLevel' = apiLevel
            /\ loc' = IF apiLevel > __detecting
                      THEN ReturnGet(t)
                      ELSE [loc EXCEPT ![t].local = apiLevel]
    /\ UNCHANGED <<pfn, symbols, mem, counter, lock, cond, woa, now, ctx, cfg>>

\* a probe that tests only two of the three looked-up symbols
GetProbe_TwoSymbols(t) ==
    /\ Pc(t) = "g_probe"
    /\ LET ok == symbols.wait /\ symbols.single
       IN  loc' = [loc EXCEPT ![t].probe = ok, ![t].pc = IF ok THEN "g_pfn" ELSE "g_level"]
    /\ UNCHANGED ctx
    /\ SharedUnchanged

\* lines 156-163: GetModuleHandleW, three GetProcAddress calls and the test
GetProbe(t) ==
    /\ Pc(t) = "g_probe"
    /\ LET ok == symbols.wait /\ symbols.single /\ symbols.all
       IN  loc' = [loc EXCEPT ![t].probe = ok, ![t].pc = IF ok THEN "g_pfn" ELSE "g_level"]
    /\ UNCHANGED ctx
    /\ SharedUnchanged

\* a publication that stores two of the three entry points
GetStorePfn_TwoStores(t) ==
    /\ Pc(t) = "g_pfn"
    /\ pfn' = [wait |-> symbols.wait, single |-> symbols.single, all |-> pfn.all]
    /\ loc' = Goto(t, "g_level")
    /\ UNCHANGED <<apiLevel, symbols, mem, counter, lock, cond, woa, now, ctx, cfg>>

\* lines 164-166: the three relaxed stores of the looked-up entry points
GetStorePfn(t) ==
    /\ Pc(t) = "g_pfn"
    /\ pfn' = [wait |-> symbols.wait, single |-> symbols.single, all |-> symbols.all]
    /\ loc' = Goto(t, "g_level")
    /\ UNCHANGED <<apiLevel, symbols, mem, counter, lock, cond, woa, now, ctx, cfg>>

\* lines 167-170: the release store of the level, then the return of line 174
GetStoreLevel(t) ==
    /\ Pc(t) = "g_level"
    /\ apiLevel' = IF loc[t].probe THEN __has_wait_on_address ELSE __has_srwlock
    /\ loc' = ReturnGet(t)
    /\ UNCHANGED <<pfn, symbols, mem, counter, lock, cond, woa, now, ctx, cfg>>

\* _Have_wait_functions: the relaxed load after _Get_wait_functions returned
_Have_wait_functions == apiLevel >= __has_wait_on_address

----------------------------------------------------------------------------
(* The waiter: the wait loop of the header around the exported functions   *)
(* (load, compare, spin, wait, repeat; unwait on exit)                     *)

\* __std_atomic_wait_get_deadline; the model starts a timed wait only when its
\* deadline lies within the range of the clock
WaitGetDeadline(t) ==
    /\ Pc(t) = "w_deadline"
    /\ cfg[t].timeout # _Atomic_wait_no_timeout => cfg[t].timeout <= HorizonTime - now
    /\ ctx' = [ctx EXCEPT ![t].deadline = GetDeadline(cfg[t].timeout, now)]
    /\ loc' = Goto(t, "w_check")
    /\ SharedUnchanged

\* the loop's load of the watched value and its comparison with the expected one
WaitLoad(t) ==
    /\ Pc(t) = "w_check"
    /\ loc' = [loc EXCEPT ![t].obs = mem[cfg[t].addr],
                          ![t].pc = IF mem[cfg[t].addr] # cfg[t].expected
                                    THEN "w_unwait" ELSE "w_spin"]
    /\ UNCHANGED ctx
    /\ SharedUnchanged

\* _Atomic_wait_spin; when it returns false the loop calls __std_atomic_wait_direct
\* or __std_atomic_wait_indirect, which start with _Have_wait_functions()
WaitSpin(t) ==
    /\ Pc(t) = "w_spin"
    /\ LET r == _Atomic_wait_spin(ctx[t].phase, ~cfg[t].indirect,
                                  GetSpinCount(t, ~cfg[t].indirect))
       IN  /\ ctx' = [ctx EXCEPT ![t].phase = r.word]
           /\ loc' = IF r.ret THEN Goto(t, "w_check") ELSE CallGet(t, "w_have")
    /\ SharedUnchanged

\* the call of __crtWaitOnAddress, lines 211-212 and 258-260: the timeout
\* argument, _Get_remaining_wait_milliseconds with its GetTickCount64(), is
\* evaluated before the call, whose body starts with _Get_wait_functions()
CallWoa(t) ==
    [CallGet(t, "w_woa") EXCEPT
        ![t].rem = _Get_remaining_wait_milliseconds(ctx[t].deadline, now)]

\* lines 206 and 244: the branch on _Have_wait_functions(); on the native path
\* __std_atomic_wait_direct goes on to __crtWaitOnAddress (line 211)
WaitHave(t) ==
    /\ Pc(t) = "w_have"
    /\ loc' = IF ~_Have_wait_functions THEN Goto(t, "w_fb")
              ELSE IF cfg[t].indirect THEN Goto(t, "w_ind")
              ELSE CallWoa(t)
    /\ UNCHANGED ctx
    /\ SharedUnchanged

\* a first call that advances the phase without storing the counter
WaitIndirect_NoStore(t) ==
    /\ Pc(t) = "w_ind"
    /\ IF ctx[t].phase = _Atomic_wait_phase_wait_none
       THEN /\ ctx' = [ctx EXCEPT ![t].phase = _Atomic_wait_phase_wait_counter]
            /\ loc' = [loc EXCEPT ![t].res = "woken", ![t].pc = "w_ret"]
       ELSE IF ctx[t].phase = _Atomic_wait_phase_wait_counter
       THEN /\ ctx' = ctx
            /\ loc' = CallWoa(t)
       ELSE /\ ctx' = ctx
            /\ loc' = Terminate
    /\ SharedUnchanged

\* a switch whose default case returns true
WaitIndirect_NoDefault(t) ==
    /\ Pc(t) = "w_ind"
    /\ IF ctx[t].phase = _Atomic_wait_phase_wait_none
       THEN /\ ctx' = [ctx EXCEPT ![t].counter = counter[Entry(t)],
                                  ![t].phase = _Atomic_wait_phase_wait_counter]
            /\ loc' = [loc EXCEPT ![t].res = "woken", ![t].pc = "w_ret"]
       ELSE IF ctx[t].phase = _Atomic_wait_phase_wait_counter
       THEN /\ ctx' = ctx
            /\ loc' = CallWoa(t)
       ELSE /\ ctx' = ctx
            /\ loc' = [loc EXCEPT ![t].res = "woken", ![t].pc = "w_ret"]
    /\ SharedUnchanged

\* __std_atomic_wait_indirect, lines 249-270: the switch on the phase
WaitIndirect(t) ==
    /\ Pc(t) = "w_ind"
    /\ IF ctx[t].phase = _Atomic_wait_phase_wait_none
       THEN /\ ctx' = [ctx EXCEPT ![t].counter = counter[Entry(t)],
                                  ![t].phase = _Atomic_wait_phase_wait_counter]
            /\ loc' = [loc EXCEPT ![t].res = "woken", ![t].pc = "w_ret"]
       ELSE IF ctx[t].phase = _Atomic_wait_phase_wait_counter
       THEN /\ ctx' = ctx
            /\ loc' = CallWoa(t)
       ELSE /\ ctx' = ctx
            /\ loc' = Terminate
    /\ SharedUnchanged

\* what a native wait of thread t waits on, and the value it compares with
WoaKey(t) == IF cfg[t].indirect THEN <<"ctr", Entry(t)>> ELSE <<"mem", cfg[t].addr>>
WoaCurrent(t) == IF cfg[t].indirect THEN counter[Entry(t)] ELSE mem[cfg[t].addr]
WoaCompare(t) == IF cfg[t].indirect THEN ctx[t].counter ELSE cfg[t].expected

\* the sizes WaitOnAddress accepts; with any other AddressSize it fails at once
\* with ERROR_INVALID_PARAMETER.  The indirect wait passes the size of the
\* counter, 8 (line 259).
WaitableSizes == {1, 2, 4, 8}

\* __crtWaitOnAddress after its _Get_wait_functions(): the call through
\* _Pfn_WaitOnAddress with the timeout that was computed before the call.
\* WaitOnAddress compares and enqueues atomically; it returns TRUE at once when
\* the value differs and FALSE at once when the timeout is 0.  A call through a
\* null entry point ends the process.
WaitOnAddress(t) ==
    /\ Pc(t) = "w_woa"
    /\ LET remaining == loc[t].rem
       IN  IF ~pfn.wait
           THEN /\ loc' = Terminate
                /\ woa' = woa
           ELSE IF ~cfg[t].indirect /\ cfg[t].size \notin WaitableSizes
           THEN /\ loc' = [loc EXCEPT ![t].pc = "w_woa_error", ![t].rem = 0]
                /\ woa' = woa
           ELSE IF WoaCurrent(t) # WoaCompare(t)
           THEN /\ loc' = [loc EXCEPT ![t].pc = "w_woa_true", ![t].rem = 0]
                /\ woa' = woa
           ELSE IF remaining = 0
           THEN /\ loc' = [loc EXCEPT ![t].pc = "w_woa_false", ![t].rem = 0]
                /\ woa' = woa
           ELSE /\ loc' = [loc EXCEPT ![t].pc = "w_woa_blocked",
                                      ![t].key = WoaKey(t),
                                      ![t].wakeAt = WakeTime(remaining),
                                      ![t].rem = 0]
                /\ woa' = woa \cup {t}
    /\ UNCHANGED <<apiLevel, pfn, symbols, mem, counter, lock, cond, now, ctx, cfg>>

\* the OS ends a blocked WaitOnAddress whose timeout has elapsed
WoaTimeout(t) ==
    /\ Pc(t) = "w_woa_blocked"
    /\ loc[t].wakeAt # INFINITE
    /\ now >= loc[t].wakeAt
    /\ woa' = woa \ {t}
    /\ loc' = [loc EXCEPT ![t].pc = "w_woa_false", ![t].key = <<"none", 0>>,
                          ![t].wakeAt = INFINITE]
    /\ UNCHANGED <<apiLevel, pfn, symbols, mem, counter, lock, cond, now, ctx, cfg>>

\* a return that sends a woken indirect waiter back to the start of the phases
WaitNativeReturn_Respin(t) ==
    /\ Pc(t) \in {"w_woa_true", "w_woa_false"}
    /\ IF Pc(t) = "w_woa_false"
       THEN /\ ctx' = ctx
            /\ loc' = [loc EXCEPT ![t].res = "timeout", ![t].pc = "w_ret"]
       ELSE /\ ctx' = IF cfg[t].indirect
                      THEN [ctx EXCEPT ![t].phase = _Atomic_wait_phase_init_spin_count]
                      ELSE ctx
            /\ loc' = [loc EXCEPT ![t].res = "woken", ![t].pc = "w_ret"]
    /\ SharedUnchanged

\* a return that resets the phase of an indirect waiter after a timeout too
WaitNativeReturn_ResetBoth(t) ==
    /\ Pc(t) \in {"w_woa_true", "w_woa_false"}
    /\ ctx' = IF cfg[t].indirect
              THEN [ctx EXCEPT ![t].phase = _Atomic_wait_phase_wait_none]
              ELSE ctx
    /\ loc' = [loc EXCEPT ![t].res = IF Pc(t) = "w_woa_false" THEN "timeout" ELSE "woken",
                          ![t].pc = "w_ret"]
    /\ SharedUnchanged

\* lines 211-217 and 258-266: what follows the return of __crtWaitOnAddress.
\* After a failure _Assume_timeout (lines 63-69) aborts when the error is not
\* ERROR_TIMEOUT, in a build with _DEBUG; without _DEBUG it is empty and the
\* function returns false.
WaitNativeReturn(t) ==
    /\ Pc(t) \in {"w_woa_true", "w_woa_false", "w_woa_error"}
    /\ IF Pc(t) = "w_woa_error" /\ cfg[t].debug
       THEN /\ ctx' = ctx
            /\ loc' = Terminate
       ELSE IF Pc(t) # "w_woa_true"
       THEN /\ ctx' = ctx
            /\ loc' = [loc EXCEPT ![t].res = "timeout", ![t].pc = "w_ret"]
       ELSE /\ ctx' = IF cfg[t].indirect
                      THEN [ctx EXCEPT ![t].phase = _Atomic_wait_phase_wait_none]
                      ELSE ctx
            /\ loc' = [loc EXCEPT ![t].res = "woken", ![t].pc = "w_ret"]
    /\ SharedUnchanged

\* _Atomic_wait_fallback, lines 81-94 and 104-105: the remaining time with its
\* GetTickCount64(), the early return and the switch on the phase.  In the
\* Blocked-on-lock phase the remaining time is kept for the sleep call.
WaitFallback(t) ==
    /\ Pc(t) = "w_fb"
    /\ LET remaining == _Get_remaining_wait_milliseconds(ctx[t].deadline, now)
       IN  IF remaining = 0
           THEN loc' = [loc EXCEPT ![t].res = "timeout", ![t].pc = "w_ret"]
           ELSE IF ctx[t].phase = _Atomic_wait_phase_wait_none
           THEN loc' = Goto(t, "w_fb_acq")
           ELSE IF ctx[t].phase = _Atomic_wait_phase_wait_locked
           THEN loc' = [loc EXCEPT ![t].pc = "w_fb_call", ![t].rem = remaining]
           ELSE loc' = Terminate
    /\ UNCHANGED ctx
    /\ SharedUnchanged

\* line 95: the start of SleepConditionVariableSRW with the remaining time
\* computed at line 81; it releases the lock and enqueues the thread
\* atomically.  A sleep on a lock the caller does not hold is undefined and
\* ends the process here; no specification of this module reaches it.
FallbackSleep(t) ==
    /\ Pc(t) = "w_fb_call"
    /\ LET e == Entry(t)
       IN  IF lock[e] = t
           THEN /\ loc' = [loc EXCEPT ![t].pc = "w_fb_sleep",
                                      ![t].wakeAt = WakeTime(loc[t].rem),
                                      ![t].rem = 0]
                /\ lock' = [lock EXCEPT ![e] = NoThread]
                /\ cond' = [cond EXCEPT ![e] = @ \cup {t}]
           ELSE /\ loc' = Terminate
                /\ UNCHANGED <<lock, cond>>
    /\ UNCHANGED <<apiLevel, pfn, symbols, mem, counter, woa, now, ctx, cfg>>

\* an acquisition that returns with the lock held and the phase unchanged
FallbackAcquire_NoPhase(t) ==
    /\ Pc(t) = "w_fb_acq"
    /\ lock[Entry(t)] = NoThread
    /\ lock' = [lock EXCEPT ![Entry(t)] = t]
    /\ loc' = [loc EXCEPT ![t].res = "woken", ![t].pc = "w_ret"]
    /\ UNCHANGED <<apiLevel, pfn, symbols, mem, counter, cond, woa, now, ctx, cfg>>

\* lines 89-92 and 108: AcquireSRWLockExclusive, the phase, return true
FallbackAcquire(t) ==
    /\ Pc(t) = "w_fb_acq"
    /\ lock[Entry(t)] = NoThread
    /\ lock' = [lock EXCEPT ![Entry(t)] = t]
    /\ ctx' = [ctx EXCEPT ![t].phase = _Atomic_wait_phase_wait_locked]
    /\ loc' = [loc EXCEPT ![t].res = "woken", ![t].pc = "w_ret"]
    /\ UNCHANGED <<apiLevel, pfn, symbols, mem, counter, cond, woa, now, cfg>>

\* the OS ends a SleepConditionVariableSRW whose timeout has elapsed
CondTimeout(t) ==
    /\ Pc(t) = "w_fb_sleep"
    /\ loc[t].wakeAt # INFINITE
    /\ now >= loc[t].wakeAt
    /\ cond' = [cond EXCEPT ![Entry(t)] = @ \ {t}]
    /\ loc' = [loc EXCEPT ![t].pc = "w_fb_reacq_to", ![t].wakeAt = INFINITE]
    /\ UNCHANGED <<apiLevel, pfn, symbols, mem, counter, lock, woa, now, ctx, cfg>>

\* SleepConditionVariableSRW re-acquires the lock before it returns, woken
\* (lines 101-102, 108) or timed out
FallbackReacquire(t) ==
    /\ Pc(t) \in {"w_fb_reacq_ok", "w_fb_reacq_to"}
    /\ lock[Entry(t)] = NoThread
    /\ lock' = [lock EXCEPT ![Entry(t)] = t]
    /\ loc' = IF Pc(t) = "w_fb_reacq_ok"
              THEN [loc EXCEPT ![t].res = "woken", ![t].pc = "w_ret"]
              ELSE Goto(t, "w_fb_to")
    /\ UNCHANGED <<apiLevel, pfn, symbols, mem, counter, cond, woa, now, ctx, cfg>>

\* a timed-out sleep that releases the lock and leaves the phase as it is
FallbackTimeout_KeepPhase(t) ==
    /\ Pc(t) = "w_fb_to"
    /\ lock' = [lock EXCEPT ![Entry(t)] = NoThread]
    /\ loc' = [loc EXCEPT ![t].res = "timeout", ![t].pc = "w_ret"]
    /\ UNCHANGED <<apiLevel, pfn, symbols, mem, counter, cond, woa, now, ctx, cfg>>

\* lines 96-99: _Assume_timeout, ReleaseSRWLockExclusive, the phase, return false
FallbackTimeout(t) ==
    /\ Pc(t) = "w_fb_to"
    /\ lock' = [lock EXCEPT ![Entry(t)] = NoThread]
    /\ ctx' = [ctx EXCEPT ![t].phase = _Atomic_wait_phase_wait_none]
    /\ loc' = [loc EXCEPT ![t].res = "timeout", ![t].pc = "w_ret"]
    /\ UNCHANGED <<apiLevel, pfn, symbols, mem, counter, cond, woa, now, cfg>>

\* the loop after the wait call returned: timed out ends the wait, woken re-checks
WaitReturn(t) ==
    /\ Pc(t) = "w_ret"
    /\ loc' = Goto(t, IF loc[t].res = "timeout" THEN "w_unwait" ELSE "w_check")
    /\ UNCHANGED ctx
    /\ SharedUnchanged

\* an unwait that resets the phase and leaves the lock held
Unwait_NoRelease(t) ==
    /\ Pc(t) = "w_unwait"
    /\ ctx' = [ctx EXCEPT ![t].phase =
                  IF @ = _Atomic_wait_phase_wait_locked
                  THEN _Atomic_wait_phase_wait_none ELSE @]
    /\ loc' = Goto(t, "w_done")
    /\ SharedUnchanged

\* an unwait that releases the lock and leaves the phase as it is
_Atomic_unwait_fallback_KeepPhase(t) ==
    IF ctx[t].phase = _Atomic_wait_phase_wait_locked
    THEN /\ lock' = [lock EXCEPT ![Entry(t)] = NoThread]
         /\ ctx' = ctx
    ELSE UNCHANGED <<lock, ctx>>

\* _Atomic_unwait_fallback, lines 111-118: what the call does to the lock and
\* to the context
_Atomic_unwait_fallback(t) ==
    IF ctx[t].phase = _Atomic_wait_phase_wait_locked
    THEN /\ lock' = [lock EXCEPT ![Entry(t)] = NoThread]
         /\ ctx' = [ctx EXCEPT ![t].phase = _Atomic_wait_phase_wait_none]
    ELSE UNCHANGED <<lock, ctx>>

\* __std_atomic_unwait_direct / _indirect, lines 292-304: the body is compiled
\* only in the build that finds WaitOnAddress at run time
__std_atomic_unwait(t) ==
    IF cfg[t].static
    THEN UNCHANGED <<lock, ctx>>
    ELSE _Atomic_unwait_fallback(t)

\* the unwait call that ends the wait loop
Unwait(t) ==
    /\ Pc(t) = "w_unwait"
    /\ __std_atomic_unwait(t)
    /\ loc' = Goto(t, "w_done")
    /\ UNCHANGED <<apiLevel, pfn, symbols, mem, counter, cond, woa, now, cfg>>

\* a SleepConditionVariableSRW may return without a wake and before its timeout
CondSpuriousWake(t) ==
    /\ Pc(t) = "w_fb_sleep"
    /\ cond' = [cond EXCEPT ![Entry(t)] = @ \ {t}]
    /\ loc' = [loc EXCEPT ![t].pc = "w_fb_reacq_ok", ![t].wakeAt = INFINITE]
    /\ UNCHANGED <<apiLevel, pfn, symbols, mem, counter, lock, woa, now, ctx, cfg>>

\* a WaitOnAddress may return without a wake and before its timeout
WoaSpuriousWake(t) ==
    /\ Pc(t) = "w_woa_blocked"
    /\ woa' = woa \ {t}
    /\ loc' = [loc EXCEPT ![t].pc = "w_woa_true", ![t].key = <<"none", 0>>,
                          ![t].wakeAt = INFINITE]
    /\ UNCHANGED <<apiLevel, pfn, symbols, mem, counter, lock, cond, now, ctx, cfg>>

----------------------------------------------------------------------------
(* The notifier: a store of a new value, then one notify call *)

\* the store of a value other than the current one, then the notify call, which
\* starts with _Have_wait_functions()
NotifyWrite(t) ==
    /\ Pc(t) = "n_write"
    /\ mem' = [mem EXCEPT ![cfg[t].addr] = (@ + 1) % (MaxValue + 1)]
    /\ loc' = CallGet(t, "n_have")
    /\ UNCHANGED <<apiLevel, pfn, symbols, counter, lock, cond, woa, now, ctx, cfg>>

\* a branch that sends every indirect notify to the counter, whatever the level
NotifyHave_IndirectBumps(t) ==
    /\ Pc(t) = "n_have"
    /\ loc' = IF cfg[t].indirect THEN Goto(t, "n_inc")
              ELSE IF ~_Have_wait_functions THEN Goto(t, "n_fb_acq")
              ELSE CallGet(t, "n_wake")
    /\ UNCHANGED ctx
    /\ SharedUnchanged

\* lines 222, 233 and 281: the branch on _Have_wait_functions(); on the native
\* path the direct notifies go on to __crtWakeByAddress* (lines 228, 239)
NotifyHave(t) ==
    /\ Pc(t) = "n_have"
    /\ loc' = IF ~_Have_wait_functions THEN Goto(t, "n_fb_acq")
              ELSE IF cfg[t].indirect THEN Goto(t, "n_inc")
              ELSE CallGet(t, "n_wake")
    /\ UNCHANGED ctx
    /\ SharedUnchanged

\* an indirect notify that leaves the counter as it is
NotifyIncrement_NoBump(t) ==
    /\ Pc(t) = "n_inc"
    /\ loc' = CallGet(t, "n_wake")
    /\ UNCHANGED ctx
    /\ SharedUnchanged

\* an increment of a counter one bit wide: the second increment wraps to 0
NotifyIncrement_OneBit(t) ==
    /\ Pc(t) = "n_inc"
    /\ counter' = [counter EXCEPT ![Entry(t)] = (@ + 1) % 2]
    /\ loc' = CallGet(t, "n_wake")
    /\ UNCHANGED <<apiLevel, pfn, symbols, mem, lock, cond, woa, now, ctx, cfg>>

\* line 288: _Entry._Counter.fetch_add(1), then __crtWakeByAddressAll (line 289)
NotifyIncrement(t) ==
    /\ Pc(t) = "n_inc"
    /\ counter' = [counter EXCEPT ![Entry(t)] = @ + 1]
    /\ loc' = CallGet(t, "n_wake")
    /\ UNCHANGED <<apiLevel, pfn, symbols, mem, lock, cond, woa, now, ctx, cfg>>

\* threads blocked in WaitOnAddress on what thread t notifies
WoaWaiters(t) ==
    {w \in woa : loc[w].key = IF cfg[t].indirect THEN <<"ctr", Entry(t)>>
                              ELSE <<"mem", cfg[t].addr>>}

\* the threads a set of woken WaitOnAddress callers turns into
WokenNative(ws) ==
    [w \in Threads |-> IF w \in ws
                       THEN [loc[w] EXCEPT !.pc = "w_woa_true", !.key = <<"none", 0>>,
                                           !.wakeAt = INFINITE]
                       ELSE loc[w]]

\* a wake in which notify_one_indirect wakes a single waiter of the counter
NotifyWake_OneIndirect(t) ==
    /\ Pc(t) = "n_wake"
    /\ IF cfg[t].one
       THEN IF ~pfn.single
            THEN /\ loc' = Terminate
                 /\ woa' = woa
            ELSE IF WoaWaiters(t) = {}
            THEN /\ loc' = Goto(t, "n_done")
                 /\ woa' = woa
            ELSE \E w \in WoaWaiters(t) :
                    /\ loc' = [WokenNative({w}) EXCEPT ![t].pc = "n_done"]
                    /\ woa' = woa \ {w}
       ELSE IF ~pfn.all
            THEN /\ loc' = Terminate
                 /\ woa' = woa
            ELSE /\ loc' = [WokenNative(WoaWaiters(t)) EXCEPT ![t].pc = "n_done"]
                 /\ woa' = woa \ WoaWaiters(t)
    /\ UNCHANGED <<apiLevel, pfn, symbols, mem, counter, lock, cond, now, ctx, cfg>>

\* __crtWakeByAddressSingle (notify_one_direct) and __crtWakeByAddressAll after
\* their _Get_wait_functions(): the call through the entry point
NotifyWake(t) ==
    /\ Pc(t) = "n_wake"
    /\ IF cfg[t].one /\ ~cfg[t].indirect
       THEN IF ~pfn.single
            THEN /\ loc' = Terminate
                 /\ woa' = woa
            ELSE IF WoaWaiters(t) = {}
            THEN /\ loc' = Goto(t, "n_done")
                 /\ woa' = woa
            ELSE \E w \in WoaWaiters(t) :
                    /\ loc' = [WokenNative({w}) EXCEPT ![t].pc = "n_done"]
                    /\ woa' = woa \ {w}
       ELSE IF ~pfn.all
            THEN /\ loc' = Terminate
                 /\ woa' = woa
            ELSE /\ loc' = [WokenNative(WoaWaiters(t)) EXCEPT ![t].pc = "n_done"]
                 /\ woa' = woa \ WoaWaiters(t)
    /\ UNCHANGED <<apiLevel, pfn, symbols, mem, counter, lock, cond, now, ctx, cfg>>

\* a notify that broadcasts without taking the entry's lock first
NotifyFallbackAcquire_NoLock(t) ==
    /\ Pc(t) = "n_fb_acq"
    /\ loc' = Goto(t, "n_fb_wake")
    /\ UNCHANGED ctx
    /\ SharedUnchanged

\* _Atomic_notify_fallback, line 122: AcquireSRWLockExclusive
NotifyFallbackAcquire(t) ==
    /\ Pc(t) = "n_fb_acq"
    /\ lock[Entry(t)] = NoThread
    /\ lock' = [lock EXCEPT ![Entry(t)] = t]
    /\ loc' = Goto(t, "n_fb_rel")
    /\ UNCHANGED <<apiLevel, pfn, symbols, mem, counter, cond, woa, now, ctx, cfg>>

\* line 123: ReleaseSRWLockExclusive
NotifyFallbackRelease(t) ==
    /\ Pc(t) = "n_fb_rel"
    /\ lock' = [lock EXCEPT ![Entry(t)] = NoThread]
    /\ loc' = Goto(t, "n_fb_wake")
    /\ UNCHANGED <<apiLevel, pfn, symbols, mem, counter, cond, woa, now, ctx, cfg>>

\* a fallback notify that returns without the broadcast
NotifyFallbackWake_NoWake(t) ==
    /\ Pc(t) = "n_fb_wake"
    /\ loc' = Goto(t, "n_done")
    /\ UNCHANGED ctx
    /\ SharedUnchanged

\* a fallback notify that wakes one sleeper of the entry instead of all
NotifyFallbackWake_One(t) ==
    /\ Pc(t) = "n_fb_wake"
    /\ IF cond[Entry(t)] = {}
       THEN /\ cond' = cond
            /\ loc' = Goto(t, "n_done")
       ELSE \E w \in cond[Entry(t)] :
               /\ cond' = [cond EXCEPT ![Entry(t)] = @ \ {w}]
               /\ loc' = [loc EXCEPT ![t].pc = "n_done", ![w].pc = "w_fb_reacq_ok",
                                     ![w].wakeAt = INFINITE]
    /\ UNCHANGED <<apiLevel, pfn, symbols, mem, counter, lock, woa, now, ctx, cfg>>

\* line 124: WakeAllConditionVariable
NotifyFallbackWake(t) ==
    /\ Pc(t) = "n_fb_wake"
    /\ cond' = [cond EXCEPT ![Entry(t)] = {}]
    /\ loc' = [w \in Threads |->
                  IF w = t THEN [loc[w] EXCEPT !.pc = "n_done"]
                  ELSE IF w \in cond[Entry(t)]
                  THEN [loc[w] EXCEPT !.pc = "w_fb_reacq_ok", !.wakeAt = INFINITE]
                  ELSE loc[w]]
    /\ UNCHANGED <<apiLevel, pfn, symbols, mem, counter, lock, woa, now, ctx, cfg>>

----------------------------------------------------------------------------
(* __std_atomic_set_api_level and _Force_wait_functions_srwlock_only *)

\* lines 320-331: the switch on the requested level
SetApiLevel(t) ==
    /\ Pc(t) = "a_call"
    /\ loc' = IF cfg[t].requested <= __has_srwlock
              THEN Goto(t, "f_load")
              ELSE CallGet(t, "a_ret")
    /\ UNCHANGED ctx
    /\ SharedUnchanged

\* a force that goes on to its compare_exchange whatever level it loaded
ForceLoad_NoTest(t) ==
    /\ Pc(t) = "f_load"
    /\ loc' = [loc EXCEPT ![t].local = apiLevel, ![t].pc = "f_cas"]
    /\ UNCHANGED ctx
    /\ SharedUnchanged

\* lines 137-138: the acquire load and the test; past the function, line 331
\* calls _Get_wait_functions()
ForceLoad(t) ==
    /\ Pc(t) = "f_load"
    /\ loc' = IF apiLevel <= __detecting
              THEN [loc EXCEPT ![t].local = apiLevel, ![t].pc = "f_cas"]
              ELSE CallGet(t, "a_ret")
    /\ UNCHANGED ctx
    /\ SharedUnchanged

\* lines 139-143: one compare_exchange_weak(_Local, __has_srwlock) and the test
\* after a failure; when the exchange succeeds _Local keeps the level that was
\* replaced, recorded in forced
ForceCas(t) ==
    /\ Pc(t) = "f_cas"
    /\ IF apiLevel = loc[t].local
       THEN /\ apiLevel' = __has_srwlock
            /\ loc' = [CallGet(t, "a_ret") EXCEPT
                          ![t].forced = IF loc[t].local = __not_set
                                        THEN "not_set" ELSE "detecting"]
       ELSE /\ apiLevel' = apiLevel
            /\ loc' = IF apiLevel > __detecting
                      THEN CallGet(t, "a_ret")
                      ELSE [loc EXCEPT ![t].local = apiLevel]
    /\ UNCHANGED <<pfn, symbols, mem, counter, lock, cond, woa, now, ctx, cfg>>

\* line 331: the relaxed load that is the return value
SetApiReturn(t) ==
    /\ Pc(t) = "a_ret"
    /\ loc' = [loc EXCEPT ![t].ret = apiLevel, ![t].pc = "a_done"]
    /\ UNCHANGED ctx
    /\ SharedUnchanged

----------------------------------------------------------------------------
(* The clock *)

TickSteps == {1, _Ten_days}

\* GetTickCount64 advances, by one tick or by ten days; the clock of the model
\* takes at most MaxShortSteps steps of the first kind past each multiple of ten
\* days and MaxLongSteps of the second, and none of the second while a thread
\* is between its reading of the clock and the OS wait it computed the timeout
\* for
Tick ==
    /\ \E d \in TickSteps :
          /\ d <= HorizonTime - now
          /\ (now + d) % _Ten_days <= MaxShortSteps
          /\ d = _Ten_days => \A t \in Threads : loc[t].rem \in {0, INFINITE}
          /\ now' = now + d
    /\ UNCHANGED <<apiLevel, pfn, symbols, mem, counter, lock, cond, woa, ctx, loc, cfg>>

\* GetTickCount64 reaches the end of the timeout of an OS wait in progress
TimerTick ==
    /\ \E t \in Threads :
          /\ loc[t].wakeAt # INFINITE
          /\ now < loc[t].wakeAt
          /\ now' = loc[t].wakeAt
    /\ UNCHANGED <<apiLevel, pfn, symbols, mem, counter, lock, cond, woa, ctx, loc, cfg>>

----------------------------------------------------------------------------
(* Initial states *)

\* a thread that takes no part in a specification
OffCfg ==
    [role |-> "none", addr |-> AddrX, indirect |-> FALSE, one |-> FALSE,
     timeout |-> _Atomic_wait_no_timeout, expected |-> 0, requested |-> __not_set,
     spin |-> SpinCount, wide |-> <<0, 0, 0, 0>>, size |-> 1, debug |-> FALSE,
     static |-> StaticallyAvailable, win8 |-> FALSE]

WaiterCfg(a, ind, to) ==
    [OffCfg EXCEPT !.role = "waiter", !.addr = a, !.indirect = ind, !.timeout = to]

NotifierCfg(a, ind, o) ==
    [OffCfg EXCEPT !.role = "notifier", !.addr = a, !.indirect = ind, !.one = o]

AdminCfg(r) == [OffCfg EXCEPT !.role = "admin", !.requested = r]

StartPc(role) ==
    IF role = "waiter" THEN "w_deadline"
    ELSE IF role = "notifier" THEN "n_write"
    ELSE IF role = "admin" THEN "a_call"
    ELSE IF role = "spinner" THEN "s_spin"
    ELSE IF role = "timer" THEN "r_call"
    ELSE IF role = "selector" THEN "e_call"
    ELSE IF role = "unwaiter" THEN "u_call"
    ELSE IF role = "uchar" THEN "x_load"
    ELSE IF role \in {"deadline_inline", "deadline_export"} THEN "d_call"
    ELSE "off"

\* a fresh _Atomic_wait_context_t: the phase word has its default member
\* initializer; _Deadline and _Counter are written before they are first read
FreshContext ==
    [phase |-> _Atomic_wait_phase_init_spin_count, deadline |-> 0, counter |-> 0]

FreshLocals(role) ==
    [pc |-> StartPc(role), cont |-> "none", local |-> __not_set, probe |-> FALSE,
     res |-> "none", obs |-> 0, wakeAt |-> INFINITE, key |-> <<"none", 0>>,
     ret |-> __not_set, forced |-> "none", trues |-> 0, dl |-> <<0, 0, 0, 0>>,
     rem |-> 0]

AllSymbols == [wait : BOOLEAN, single : BOOLEAN, all : BOOLEAN]
Resolved == [wait |-> TRUE, single |-> TRUE, all |-> TRUE]
NoPfn == [wait |-> FALSE, single |-> FALSE, all |-> FALSE]

\* the process before first use: static initialisation of _Wait_functions and
\* of the wait table, the watched bytes at their expected value
InitProcess(config) ==
    /\ apiLevel = __not_set
    /\ pfn = NoPfn
    /\ mem = [a \in Addrs |-> 0]
    /\ counter = [e \in Entries |-> 0]
    /\ lock = [e \in Entries |-> NoThread]
    /\ cond = [e \in Entries |-> {}]
    /\ woa = {}
    /\ now = 0
    /\ cfg = config
    /\ ctx = [t \in Threads |-> FreshContext]
    /\ loc = [t \in Threads |-> FreshLocals(config[t].role)]

Idle == [t \in Threads |-> OffCfg]

\* one waiter and one notifier of the same address and kind, no deadline
Init ==
    /\ symbols \in AllSymbols
    /\ \E ind \in BOOLEAN, o \in BOOLEAN :
          InitProcess([Idle EXCEPT
              !["w1"] = WaiterCfg(AddrX, ind, _Atomic_wait_no_timeout),
              !["n1"] = NotifierCfg(AddrX, ind, o)])

GetStep(t) ==
    \/ GetLoad(t)
    \/ GetCas(t)
    \/ GetProbe(t)
    \/ GetStorePfn(t)
    \/ GetStoreLevel(t)

\* the waiter's steps that do not depend on a timeout
WaiterStep(t) ==
    \/ WaitGetDeadline(t)
    \/ WaitLoad(t)
    \/ WaitSpin(t)
    \/ WaitHave(t)
    \/ WaitIndirect(t)
    \/ WaitOnAddress(t)
    \/ WaitNativeReturn(t)
    \/ WaitFallback(t)
    \/ FallbackSleep(t)
    \/ FallbackAcquire(t)
    \/ FallbackReacquire(t)
    \/ WaitReturn(t)
    \/ Unwait(t)

NotifierStep(t) ==
    \/ NotifyWrite(t)
    \/ NotifyHave(t)
    \/ NotifyIncrement(t)
    \/ NotifyWake(t)
    \/ NotifyFallbackAcquire(t)
    \/ NotifyFallbackRelease(t)
    \/ NotifyFallbackWake(t)

ThreadStep(t) == GetStep(t) \/ WaiterStep(t) \/ NotifierStep(t)

OsStep(t) == CondSpuriousWake(t) \/ WoaSpuriousWake(t)

Next == \E t \in Threads : ThreadStep(t) \/ OsStep(t)

Spec == Init /\ [][Next]_vars

\* every thread that can run is scheduled, and a lock that stays free is taken
Fairness == \A t \in Threads : WF_vars(ThreadStep(t))

SpecFair == Init /\ [][Next]_vars /\ Fairness

----------------------------------------------------------------------------
(* Properties *)

Waiters == {t \in Threads : cfg[t].role = "waiter"}
Notifiers == {t \in Threads : cfg[t].role = "notifier"}

\* the notifiers whose notify call is the one that matches waiter w
Matching(w) ==
    {n \in Notifiers : cfg[n].addr = cfg[w].addr /\ cfg[n].indirect = cfg[w].indirect}

AsleepOnCondition(w) == w \in cond[Entry(w)]
BlockedNative(w) == w \in woa

\* C1: on the fallback level, once a notifier that wrote a new value has
\* completed its notify_one_direct / notify_all_direct broadcast, the waiter of
\* that address is not asleep on the entry's condition variable, and a wait
\* without deadline never returned false.
C1_NoMissedWakeupFallback ==
    \A w \in Waiters :
        (apiLevel = __has_srwlock /\ ~cfg[w].indirect) =>
            /\ loc[w].res # "timeout"
            /\ \A n \in Matching(w) : Pc(n) = "n_done" => ~AsleepOnCondition(w)

\* C1 witness: the broadcast of a completed direct fallback notify took the
\* waiter out of its sleep on the condition variable
C1_Witness ==
    \E w \in Waiters : \E n \in Matching(w) :
        /\ apiLevel = __has_srwlock
        /\ ~cfg[w].indirect
        /\ Pc(n) = "n_done"
        /\ Pc(w) = "w_fb_reacq_ok"
        /\ loc[w].obs = cfg[w].expected

\* C2: on the native level, once a notifier that wrote a new value has completed
\* notify_indirect, the indirect waiter of that address is not blocked in
\* WaitOnAddress on the entry's counter.
C2_NoMissedWakeupIndirect ==
    \A w \in Waiters :
        (apiLevel = __has_wait_on_address /\ cfg[w].indirect) =>
            \A n \in Matching(w) : Pc(n) = "n_done" => ~BlockedNative(w)

\* C2 witness: the waiter took its snapshot and re-read the old value, the
\* notify completed, and the waiter now enters WaitOnAddress with a counter that
\* differs from its snapshot
C2_Witness ==
    \E w \in Waiters : \E n \in Matching(w) :
        /\ apiLevel = __has_wait_on_address
        /\ cfg[w].indirect
        /\ Pc(n) = "n_done"
        /\ Pc(w) = "w_woa"
        /\ loc[w].obs = cfg[w].expected
        /\ ctx[w].counter # counter[Entry(w)]

\* C3: with no deadline, a direct waiter whose address is written and then
\* notified with notify_all_direct never gets false from a wait, every block of
\* it ends with the wait returning true, and it ends its wait having read the
\* new value; on the native and on the fallback level.
C3_EndToEndLiveness ==
    \A w \in {"w1"} :
        (~cfg[w].indirect /\ \E n \in Matching(w) : ~cfg[n].one) =>
            /\ [](loc[w].res # "timeout")
            /\ (AsleepOnCondition(w) \/ BlockedNative(w))
                  ~> (Pc(w) = "w_ret" /\ loc[w].res = "woken")
            /\ <>(Pc(w) = "w_done" /\ loc[w].obs # cfg[w].expected)

\* C3 witness: a direct waiter that was woken out of WaitOnAddress by
\* notify_all_direct has read the new value and left its wait
C3_Witness ==
    \E w \in Waiters : \E n \in Matching(w) :
        /\ ~cfg[w].indirect
        /\ ~cfg[n].one
        /\ apiLevel = __has_wait_on_address
        /\ Pc(n) = "n_done"
        /\ Pc(w) = "w_done"
        /\ loc[w].res = "woken"
        /\ loc[w].obs # cfg[w].expected

----------------------------------------------------------------------------
(* Feature detection racing with set_api_level *)

RequestedLevels == __not_set .. __has_wait_on_address

\* a direct waiter, a notify_all_direct notifier and two callers of
\* __std_atomic_set_api_level, all before first use of the process
InitRace ==
    /\ symbols \in {Resolved, NoPfn}
    /\ \E r1 \in RequestedLevels, r2 \in RequestedLevels :
          r1 <= r2 /\ InitProcess([Idle EXCEPT
              !["w1"] = WaiterCfg(AddrX, FALSE, _Atomic_wait_no_timeout),
              !["n1"] = NotifierCfg(AddrX, FALSE, FALSE),
              !["a1"] = AdminCfg(r1),
              !["a2"] = AdminCfg(r2)])

\* the steps the race does not need: it has no indirect operation
RaceWaiterStep(t) ==
    \/ WaitGetDeadline(t)
    \/ WaitLoad(t)
    \/ WaitSpin(t)
    \/ WaitHave(t)
    \/ WaitOnAddress(t)
    \/ WaitNativeReturn(t)
    \/ WaitFallback(t)
    \/ FallbackSleep(t)
    \/ FallbackAcquire(t)
    \/ FallbackReacquire(t)
    \/ WaitReturn(t)
    \/ Unwait(t)

RaceNotifierStep(t) ==
    \/ NotifyWrite(t)
    \/ NotifyHave(t)
    \/ NotifyWake(t)
    \/ NotifyFallbackAcquire(t)
    \/ NotifyFallbackRelease(t)
    \/ NotifyFallbackWake(t)

AdminStep(t) ==
    \/ SetApiLevel(t)
    \/ ForceLoad(t)
    \/ ForceCas(t)
    \/ SetApiReturn(t)

NextRace ==
    \E t \in Threads :
        GetStep(t) \/ RaceWaiterStep(t) \/ RaceNotifierStep(t) \/ AdminStep(t) \/ OsStep(t)

SpecRace == InitRace /\ [][NextRace]_vars

\* C4: whatever the interleaving of detection and set_api_level calls, once a
\* notify_all_direct that followed a write has completed, the direct waiter of
\* that address is blocked neither on the condition variable nor in
\* WaitOnAddress.
C4_NotifyWakesOnEveryPath ==
    \A w \in Waiters :
        ~cfg[w].indirect =>
            \A n \in Matching(w) :
                (~cfg[n].one /\ Pc(n) = "n_done") =>
                    (~AsleepOnCondition(w) /\ ~BlockedNative(w))

Terminal(level) == level \in {__has_srwlock, __has_wait_on_address}

\* C9: once the feature level holds a terminal value, no step changes it.
C9_TerminalLevelNeverChanges == [][Terminal(apiLevel) => apiLevel' = apiLevel]_vars

\* the threads inside the detection block of _Get_wait_functions (lines 156-171)
Probing == {t \in Threads : Pc(t) \in {"g_probe", "g_pfn", "g_level"}}

\* C10: at no time are two threads inside the symbol-lookup block.
C10_OnlyOneThreadProbes == Cardinality(Probing) <= 1

----------------------------------------------------------------------------
(* Waits with a finite deadline and no notifier *)

\* a timeout of one tick and one beyond the longest single OS wait
Timeouts == {1, _Ten_days + 1}

InitTimed ==
    /\ symbols \in {Resolved, NoPfn}
    /\ \E ind \in BOOLEAN, to \in Timeouts :
          InitProcess([Idle EXCEPT !["w1"] = WaiterCfg(AddrX, ind, to)])

TimeoutStep(t) ==
    \/ CondTimeout(t)
    \/ WoaTimeout(t)
    \/ FallbackTimeout(t)

NextTimed ==
    \/ \E t \in Threads : GetStep(t) \/ WaiterStep(t) \/ TimeoutStep(t) \/ OsStep(t)
    \/ Tick
    \/ TimerTick

SpecTimed == InitTimed /\ [][NextTimed]_vars

\* the clock advances, every runnable thread is scheduled and the OS ends a
\* wait whose timeout has elapsed.  The clock never stops for a thread: a step
\* of the clock that is possible again and again is taken.
FairnessTimed ==
    /\ SF_vars(Tick)
    /\ WF_vars(TimerTick)
    /\ \A t \in Threads : WF_vars(GetStep(t) \/ WaiterStep(t) \/ TimeoutStep(t))

SpecTimedFair == InitTimed /\ [][NextTimed]_vars /\ FairnessTimed

FiniteDeadline(w) == ctx[w].deadline # _Atomic_wait_no_timeout

ReturnedFalse(w) == Pc(w) = "w_ret" /\ loc[w].res = "timeout"

\* C5: with no notify, a wait with a finite deadline returns false only when
\* the tick count has reached the deadline.
C5_NeverTimesOutEarly ==
    \A w \in Waiters : (ReturnedFalse(w) /\ FiniteDeadline(w)) => now >= ctx[w].deadline

\* C6: with no notify and the value unchanged, a waiter with a finite deadline
\* that has entered its wait loop eventually gets false from a wait call.
C6_TimeoutLiveness ==
    \A w \in {"w1"} :
        (Pc(w) = "w_check" /\ FiniteDeadline(w)) ~> ReturnedFalse(w)

\* C6 witness: the waiter slept on the condition variable until its deadline and
\* its wait returned false
C6_Witness ==
    \E w \in Waiters :
        /\ ReturnedFalse(w)
        /\ apiLevel = __has_srwlock
        /\ ctx[w].phase = _Atomic_wait_phase_wait_none
        /\ now >= ctx[w].deadline

\* C7: when a fallback wait has just returned false, the calling thread does
\* not hold the entry's lock.
C7_FalseLeavesLockReleased ==
    \A w \in Waiters :
        (ReturnedFalse(w) /\ apiLevel = __has_srwlock) => lock[Entry(w)] # w

----------------------------------------------------------------------------
(* Two addresses of one wait-table entry, on the fallback level *)

\* the process after __std_atomic_set_api_level(__has_srwlock) pinned the
\* fallback: a waiter and a notifier for each of two colliding addresses
InitCollide ==
    /\ symbols = NoPfn
    /\ \E o \in BOOLEAN :
          /\ pfn = NoPfn
          /\ mem = [a \in Addrs |-> 0]
          /\ counter = [e \in Entries |-> 0]
          /\ lock = [e \in Entries |-> NoThread]
          /\ cond = [e \in Entries |-> {}]
          /\ woa = {}
          /\ now = 0
          /\ apiLevel = __has_srwlock
          /\ cfg = [Idle EXCEPT
                 !["w1"] = WaiterCfg(AddrX, FALSE, _Atomic_wait_no_timeout),
                 !["w2"] = WaiterCfg(AddrY, FALSE, _Atomic_wait_no_timeout),
                 !["n1"] = NotifierCfg(AddrX, FALSE, o),
                 !["n2"] = NotifierCfg(AddrY, FALSE, o)]
          /\ ctx = [t \in Threads |-> FreshContext]
          /\ loc = [t \in Threads |-> FreshLocals(cfg[t].role)]

CollideWaiterStep(t) ==
    \/ WaitGetDeadline(t)
    \/ WaitLoad(t)
    \/ WaitSpin(t)
    \/ WaitHave(t)
    \/ WaitFallback(t)
    \/ FallbackSleep(t)
    \/ FallbackAcquire(t)
    \/ FallbackReacquire(t)
    \/ WaitReturn(t)
    \/ Unwait(t)

CollideNotifierStep(t) ==
    \/ NotifyWrite(t)
    \/ NotifyHave(t)
    \/ NotifyFallbackAcquire(t)
    \/ NotifyFallbackRelease(t)
    \/ NotifyFallbackWake(t)

CollideStep(t) == GetLoad(t) \/ CollideWaiterStep(t) \/ CollideNotifierStep(t)

NextCollide == \E t \in Threads : CollideStep(t)

SpecCollide == InitCollide /\ [][NextCollide]_vars

SpecCollideFair ==
    InitCollide /\ [][NextCollide]_vars /\ \A t \in Threads : WF_vars(CollideStep(t))

\* C8: for two addresses of the same entry, a waiter is never asleep on the
\* condition variable once the notify for its own address has completed, and
\* both waiters end their wait having read the new value of their own address.
C8_CollisionSafety ==
    /\ [](\A w \in Waiters : \A n \in Matching(w) :
             Pc(n) = "n_done" => ~AsleepOnCondition(w))
    /\ \A w \in {"w1", "w2"} : <>(Pc(w) = "w_done" /\ loc[w].obs # cfg[w].expected)

\* C8 witness: the notify for Y has completed and woke the waiter on X out of
\* its sleep while X is still unchanged and the notify for X has not started
C8_Witness ==
    /\ _Atomic_wait_table_entry(AddrX) = _Atomic_wait_table_entry(AddrY)
    /\ Pc("n2") = "n_done"
    /\ Pc("n1") = "n_write"
    /\ mem[AddrX] = cfg["w1"].expected
    /\ Pc("w1") = "w_fb_reacq_ok"

----------------------------------------------------------------------------
(* Detection without set_api_level *)

\* the level that the three symbol lookups of lines 158-163 call for
DetectedLevel ==
    IF symbols.wait /\ symbols.single /\ symbols.all
    THEN __has_wait_on_address ELSE __has_srwlock

\* the threads whose _Get_wait_functions call has just returned to a caller
\* that now reads the level or the entry points
QueryReturned == {t \in Threads : Pc(t) \in {"w_have", "n_have", "w_woa", "n_wake", "a_ret"}}

\* C11: when threads make their first _Get_wait_functions call concurrently and
\* nobody forces the fallback, every call returns with the level terminal, the
\* terminal level is has_wait_on_address exactly when all three symbols
\* resolved and has_srwlock otherwise, and a terminal level is never replaced,
\* so every query and every later query observes that same level.
C11_IdempotentDetection ==
    /\ [](\A t \in QueryReturned : Terminal(apiLevel))
    /\ [](Terminal(apiLevel) => apiLevel = DetectedLevel)
    /\ [][Terminal(apiLevel) => apiLevel' = apiLevel]_vars

\* C11 witness: two threads raced through their first query, two of the three
\* symbols resolved, and both are back in their callers with the fallback level
C11_Witness ==
    /\ symbols.wait /\ symbols.single /\ ~symbols.all
    /\ Cardinality(QueryReturned) >= 2
    /\ apiLevel = __has_srwlock

----------------------------------------------------------------------------
(* Pinning the fallback *)

\* the positions of a thread on the WaitOnAddress path of a wait or a notify
NativePcs ==
    {"w_ind", "w_woa", "w_woa_true", "w_woa_false", "w_woa_blocked", "n_inc", "n_wake"}

OnNativePath(t) == Pc(t) \in NativePcs \/ loc[t].cont \in NativePcs

\* the set_api_level calls whose compare_exchange replaced the level Unset:
\* no detection had started before or during the call
PinnedFromUnset == {a \in Threads : loc[a].forced = "not_set"}

\* C12: when a set_api_level call with a requested level of has_srwlock or
\* lower finds the level Unset, with no detection started before its
\* compare_exchange, then from that step on the level is has_srwlock, the call
\* returns has_srwlock, no thread is in the symbol-lookup block, no entry point
\* is stored, and no wait or notify is on the WaitOnAddress path.
C12_PinnedFallback ==
    \A a \in PinnedFromUnset :
        /\ apiLevel = __has_srwlock
        /\ Pc(a) = "a_done" => loc[a].ret = __has_srwlock
        /\ Probing = {}
        /\ pfn = NoPfn
        /\ woa = {}
        /\ \A t \in Threads : ~OnNativePath(t)

\* C12 witness: the symbols would all resolve, yet after the pin the waiter went
\* to sleep on the condition variable and the notifier's broadcast woke it
C12_Witness ==
    \E a \in PinnedFromUnset :
        /\ symbols = Resolved
        /\ Pc(a) = "a_done"
        /\ \E w \in Waiters : \E n \in Matching(w) :
              Pc(w) = "w_fb_reacq_ok" /\ Pc(n) = "n_done"

----------------------------------------------------------------------------
(* set_api_level after the level is terminal *)

Admins == {t \in Threads : cfg[t].role = "admin"}

\* the positions a set_api_level call passes through when every load of the
\* level it makes returns a terminal value
NoOpPcs == {"a_call", "f_load", "g_load", "a_ret"}

\* C13: a set_api_level call made when the level is already terminal, whatever
\* level it requests, changes neither the level nor the cached entry points in
\* any of its steps, never reaches a compare_exchange or the symbol lookup, and
\* returns the level that is stored.
C13_ForceIsNoOpAfterDetection ==
    [][\A a \in Admins :
          (Terminal(apiLevel) /\ Pc(a) \in NoOpPcs /\ loc'[a] # loc[a]) =>
              /\ apiLevel' = apiLevel
              /\ pfn' = pfn
              /\ loc'[a].pc \in NoOpPcs \cup {"a_done", "abort"}
              /\ loc'[a].pc = "a_done" => loc'[a].ret = apiLevel]_vars

\* C13 witness: the level is has_wait_on_address with its entry points cached,
\* and a call that requested the fallback has returned has_wait_on_address
\* without any exchange of its own
C13_Witness ==
    \E a \in Admins :
        /\ cfg[a].requested <= __has_srwlock
        /\ Pc(a) = "a_done"
        /\ loc[a].forced = "none"
        /\ loc[a].ret = __has_wait_on_address
        /\ apiLevel = __has_wait_on_address
        /\ pfn = Resolved

----------------------------------------------------------------------------
(* Indirect notifies of two addresses of one entry *)

\* an indirect waiter on X and indirect notifies of X and of Y, which select
\* the same wait-table entry; the level comes from detection at first use
InitNotify ==
    /\ symbols \in {Resolved, NoPfn}
    /\ \E o1 \in BOOLEAN, o2 \in BOOLEAN :
          InitProcess([Idle EXCEPT
              !["w1"] = WaiterCfg(AddrX, TRUE, _Atomic_wait_no_timeout),
              !["n1"] = NotifierCfg(AddrX, TRUE, o1),
              !["n2"] = NotifierCfg(AddrY, TRUE, o2)])

NextNotify == \E t \in Threads : ThreadStep(t)

SpecNotify == InitNotify /\ [][NextNotify]_vars

IndirectNotifiers == {n \in Notifiers : cfg[n].indirect}

\* the notify_indirect calls on addresses of entry e, and those that returned
NotifiesOf(e) == {n \in IndirectNotifiers : Entry(n) = e}
ReturnedNotifiesOf(e) == {n \in NotifiesOf(e) : Pc(n) = "n_done"}

\* C14: once the N concurrent notify_indirect calls on addresses of one
\* wait-table entry have all returned, the entry's counter is N above its
\* initial value 0.
C14_CounterCountsEveryNotify ==
    \A e \in Entries :
        ReturnedNotifiesOf(e) = NotifiesOf(e) => counter[e] = Cardinality(NotifiesOf(e))

\* C15: at every feature level, a notify_one_indirect or notify_all_indirect
\* call increases the counter of the entry its address selects before it wakes
\* anybody: a call that has returned has left the counter above its initial
\* value, and a call that is about to wake or has woken waiters has done so too.
C15_NotifyIndirectAlwaysIncrements ==
    \A n \in IndirectNotifiers :
        Pc(n) \in {"n_wake", "n_fb_wake", "n_done"} => counter[Entry(n)] >= 1

\* C16: on the fallback level a notify_one_direct call's wake step leaves
\* nobody asleep on the condition variable of the entry: every thread that was
\* asleep there, whatever address it waits for, is woken by that one step, as
\* by notify_all_direct.
C16_NotifyOneWakesAllFallback ==
    [][\A n \in Notifiers :
          (/\ cfg[n].one /\ ~cfg[n].indirect
           /\ apiLevel = __has_srwlock
           /\ Pc(n) = "n_fb_wake" /\ loc'[n].pc = "n_done") =>
              /\ cond'[Entry(n)] = {}
              /\ \A w \in cond[Entry(n)] : loc'[w].pc = "w_fb_reacq_ok"]_vars

\* C16 witness: one notify_one_direct has returned, the other notifier has not
\* started, and both waiters of the entry are out of their sleep, woken by the
\* same broadcast
C16_Witness ==
    /\ cfg["n1"].one /\ ~cfg["n1"].indirect
    /\ apiLevel = __has_srwlock
    /\ Entry("w1") = Entry("w2")
    /\ Pc("n1") = "n_done"
    /\ Pc("n2") = "n_write"
    /\ Pc("w1") = "w_fb_reacq_ok"
    /\ Pc("w2") = "w_fb_reacq_ok"

----------------------------------------------------------------------------
(* Contention for the entry locks on the fallback level *)

\* the process after the fallback was pinned: a waiter on X, with or without a
\* deadline, a notifier of X, and a waiter on a second address that selects the
\* entry of X (Y) or another entry (Z)
InitLocks ==
    /\ symbols = NoPfn
    /\ \E to \in {_Atomic_wait_no_timeout, 1}, second \in {AddrY, AddrZ}, o \in BOOLEAN :
          /\ pfn = NoPfn
          /\ mem = [a \in Addrs |-> 0]
          /\ counter = [e \in Entries |-> 0]
          /\ lock = [e \in Entries |-> NoThread]
          /\ cond = [e \in Entries |-> {}]
          /\ woa = {}
          /\ now = 0
          /\ apiLevel = __has_srwlock
          /\ cfg = [Idle EXCEPT
                 !["w1"] = WaiterCfg(AddrX, FALSE, to),
                 !["w2"] = WaiterCfg(second, FALSE, _Atomic_wait_no_timeout),
                 !["n1"] = NotifierCfg(AddrX, FALSE, o)]
          /\ ctx = [t \in Threads |-> FreshContext]
          /\ loc = [t \in Threads |-> FreshLocals(cfg[t].role)]

\* a step of thread t or of the OS on its behalf: the sleep on the condition
\* variable may end by its timeout or without any cause
LocksStep(t) ==
    \/ CollideStep(t)
    \/ CondTimeout(t)
    \/ FallbackTimeout(t)
    \/ CondSpuriousWake(t)

\* the clock of this specification advances while a deadline lies ahead
LocksTick == Tick /\ \E w \in Waiters : FiniteDeadline(w) /\ now < ctx[w].deadline

NextLocks == (\E t \in Threads : LocksStep(t)) \/ LocksTick \/ TimerTick

SpecLocks == InitLocks /\ [][NextLocks]_vars

\* the clock advances, every thread that can take a step of its own takes one,
\* and the OS ends a sleep whose timeout has elapsed; it owes no spurious wake.
\* AcquireSRWLockExclusive in the notify does not starve: a notifier that finds
\* the lock free again and again gets it.
SpecLocksFair ==
    /\ InitLocks /\ [][NextLocks]_vars
    /\ SF_vars(LocksTick)
    /\ WF_vars(TimerTick)
    /\ \A t \in Threads : WF_vars(CollideStep(t) \/ CondTimeout(t) \/ FallbackTimeout(t))
    /\ SF_vars(NotifyFallbackAcquire("n1"))

\* the entry locks thread t holds
HeldBy(t) == {e \in Entries : lock[e] = t}

\* thread t is inside AcquireSRWLockExclusive, or in the re-acquisition at the
\* end of SleepConditionVariableSRW, and the lock is taken
BlockedOnLock(t) ==
    /\ Pc(t) \in {"w_fb_acq", "w_fb_reacq_ok", "w_fb_reacq_to", "n_fb_acq"}
    /\ lock[Entry(t)] # NoThread

Blocked(t) == BlockedOnLock(t) \/ t \in woa \/ \E e \in Entries : t \in cond[e]

\* the threads that take part and have not finished
Running == {t \in Threads : cfg[t].role # "none" /\ Pc(t) \notin {"w_done", "n_done", "abort"}}

----------------------------------------------------------------------------
(* The phase of a wait context *)

\* the place of a phase word in the order Init, Spinning, Blocked-none,
\* Blocked-on-lock / Blocked-on-counter
PhaseRank(word) ==
    IF PhaseOf(word) = _Atomic_wait_phase_init_spin_count THEN 0
    ELSE IF PhaseOf(word) = _Atomic_wait_phase_spin THEN 1
    ELSE IF PhaseOf(word) = _Atomic_wait_phase_wait_none THEN 2
    ELSE 3

\* C18: in every step the phase of a context keeps its place in the order Init,
\* Spinning, Blocked-none, Blocked-on-lock / Blocked-on-counter or moves
\* forward, except that a context whose wait timed out may be reset to Init.
C18_PhaseOnlyMovesForward ==
    [][\A w \in Waiters :
          \/ PhaseRank(ctx'[w].phase) >= PhaseRank(ctx[w].phase)
          \/ /\ loc[w].res = "timeout"
             /\ ctx'[w].phase = _Atomic_wait_phase_init_spin_count]_vars

\* C18 amended: in every step the phase keeps its place in that order or moves
\* forward, the spin count never grows while spinning, and the only backward
\* step leads from Blocked-on-lock or Blocked-on-counter to Blocked-none; the
\* phase never returns to Init or Spinning.
C18_PhaseBackOnlyToWaitNone ==
    [][\A w \in Waiters :
          /\ \/ PhaseRank(ctx'[w].phase) >= PhaseRank(ctx[w].phase)
             \/ /\ PhaseRank(ctx[w].phase) = 3
                /\ ctx'[w].phase = _Atomic_wait_phase_wait_none
          /\ (PhaseRank(ctx[w].phase) = 1 /\ PhaseRank(ctx'[w].phase) = 1)
                => SpinValueOf(ctx'[w].phase) <= SpinValueOf(ctx[w].phase)]_vars

\* C18 witness: an indirect wait on the native level has returned true out of
\* WaitOnAddress and its context, which held a counter snapshot, is back in the
\* Blocked-none phase
C18_Witness ==
    \E w \in Waiters :
        /\ cfg[w].indirect
        /\ apiLevel = __has_wait_on_address
        /\ Pc(w) = "w_ret"
        /\ loc[w].res = "woken"
        /\ ctx[w].phase = _Atomic_wait_phase_wait_none

----------------------------------------------------------------------------
(* The pure functions of the wait loop: spin policy and remaining time *)

SpinnerCfg(is_direct, budget) ==
    [OffCfg EXCEPT !.role = "spinner", !.indirect = ~is_direct, !.spin = budget]

TimerCfg(to) == [OffCfg EXCEPT !.role = "timer", !.timeout = to]

\* timeouts whose deadlines lie at, within and beyond ten days, and none
PureTimeouts ==
    {0, 1, _Ten_days, _Ten_days + 1, 2 * _Ten_days + 1, _Atomic_wait_no_timeout}

\* a thread that calls _Atomic_wait_spin on a fresh context until it returns
\* false, on a platform that reports some spin budget, and a thread that calls
\* _Get_remaining_wait_milliseconds, as the clock advances, on a context whose
\* deadline was set at tick 0
InitPure ==
    /\ symbols = NoPfn
    /\ \E budget \in 0 .. MaxSpinCount, is_direct \in BOOLEAN, to \in PureTimeouts :
          /\ apiLevel = __not_set
          /\ pfn = NoPfn
          /\ mem = [a \in Addrs |-> 0]
          /\ counter = [e \in Entries |-> 0]
          /\ lock = [e \in Entries |-> NoThread]
          /\ cond = [e \in Entries |-> {}]
          /\ woa = {}
          /\ now = 0
          /\ cfg = [Idle EXCEPT !["w1"] = SpinnerCfg(is_direct, budget),
                                !["w2"] = TimerCfg(to)]
          /\ ctx = [t \in Threads |->
                       IF t = "w2"
                       THEN [FreshContext EXCEPT !.deadline = GetDeadline(to, 0)]
                       ELSE FreshContext]
          /\ loc = [t \in Threads |-> FreshLocals(cfg[t].role)]

\* one call of _Atomic_wait_spin; the caller counts the calls that returned true
SpinCall(t) ==
    /\ Pc(t) = "s_spin"
    /\ LET r == _Atomic_wait_spin(ctx[t].phase, ~cfg[t].indirect,
                                  GetSpinCount(t, ~cfg[t].indirect))
       IN  /\ ctx' = [ctx EXCEPT ![t].phase = r.word]
           /\ loc' = IF r.ret
                     THEN [loc EXCEPT ![t].trues = @ + 1]
                     ELSE Goto(t, "s_done")
    /\ SharedUnchanged

\* one call of _Get_remaining_wait_milliseconds at the current tick count
RemainingCall(t) ==
    /\ Pc(t) \in {"r_call", "r_done"}
    /\ loc' = [loc EXCEPT
                  ![t].ret = _Get_remaining_wait_milliseconds(ctx[t].deadline, now),
                  ![t].pc = "r_done"]
    /\ UNCHANGED ctx
    /\ SharedUnchanged

NextPure == (\E t \in Threads : SpinCall(t) \/ RemainingCall(t)) \/ Tick

SpecPure == InitPure /\ [][NextPure]_vars

Spinners == {t \in Threads : cfg[t].role = "spinner"}
Timers == {t \in Threads : cfg[t].role = "timer"}

\* C19: a fresh context is in the Init phase; after each call of
\* _Atomic_wait_spin that returned true the context is in the spinning phase
\* with the budget reported by the platform less one step per true result; the
\* call that returns false leaves the phase Blocked-none and comes after
\* exactly as many true results as the budget has steps.
C19_SpinPolicy ==
    \A t \in Spinners :
        /\ loc[t].trues <= cfg[t].spin
        /\ (Pc(t) = "s_spin" /\ loc[t].trues = 0) =>
              ctx[t].phase = _Atomic_wait_phase_init_spin_count
        /\ (Pc(t) = "s_spin" /\ loc[t].trues > 0) =>
              /\ PhaseOf(ctx[t].phase) = _Atomic_wait_phase_spin
              /\ SpinValueOf(ctx[t].phase) =
                    (cfg[t].spin - loc[t].trues) * _Atomic_spin_value_step
        /\ Pc(t) = "s_done" =>
              /\ loc[t].trues = cfg[t].spin
              /\ ctx[t].phase = _Atomic_wait_phase_wait_none

\* C19 witness: with the largest budget, the spin returned true once for each
\* step of the budget and then false
C19_Witness ==
    \E t \in Spinners :
        /\ cfg[t].spin = MaxSpinCount
        /\ Pc(t) = "s_done"
        /\ loc[t].trues = MaxSpinCount
        /\ ctx[t].phase = _Atomic_wait_phase_wait_none

\* the smaller of two numbers
Min(a, b) == IF a <= b THEN a ELSE b

\* C20: each _Get_remaining_wait_milliseconds call returns INFINITE for the
\* no-deadline sentinel; for a finite deadline it returns 0 when the tick
\* count has reached the deadline and otherwise the smaller of deadline - now
\* and 864000000, a value above 0, at most ten days and at most deadline - now.
C20_RemainingTime ==
    [][\A t \in Timers :
          loc'[t] # loc[t] =>
              LET d == ctx[t].deadline
                  r == loc'[t].ret
              IN  IF d = _Atomic_wait_no_timeout THEN r = INFINITE
                  ELSE IF now >= d THEN r = 0
                  ELSE /\ r = Min(d - now, 864000000)
                       /\ r > 0
                       /\ r <= _Ten_days
                       /\ r <= d - now]_vars

\* C20 witness: at tick 0 a deadline more than ten days ahead gave a remaining
\* time of ten days
C20_Witness ==
    \E t \in Timers :
        /\ Pc(t) = "r_done"
        /\ now = 0
        /\ ctx[t].deadline > _Ten_days
        /\ FiniteDeadline(t)
        /\ loc[t].ret = _Ten_days

----------------------------------------------------------------------------
(* The deadline of a wait, in the 64 bits of unsigned long long *)

\* an unsigned 64-bit value is a tuple of four 16-bit limbs, lowest first
LimbBase == 65536

\* the 64-bit value of a tick count of the model's clock
ToU64(n) == <<n % LimbBase, (n \div LimbBase) % LimbBase, 0, 0>>

\* unsigned long long addition: the sum modulo 2^64 and the carry out
Add64(a, b) ==
    LET s1 == a[1] + b[1]
        s2 == a[2] + b[2] + (s1 \div LimbBase)
        s3 == a[3] + b[3] + (s2 \div LimbBase)
        s4 == a[4] + b[4] + (s3 \div LimbBase)
    IN  [sum |-> <<s1 % LimbBase, s2 % LimbBase, s3 % LimbBase, s4 % LimbBase>>,
         carry |-> s4 \div LimbBase]

\* _Atomic_wait_context_t::_No_deadline, 0xFFFF'FFFF'FFFF'FFFF
_No_deadline == <<LimbBase - 1, LimbBase - 1, LimbBase - 1, LimbBase - 1>>

\* the timeout sentinel 0xFFFF'FFFF that _Atomic_wait_get_deadline tests
NoTimeout32 == <<LimbBase - 1, LimbBase - 1, 0, 0>>

\* the sentinel of atomic_wait.cpp as an unsigned long long: the no-deadline
\* value of the context
NoTimeout64 == _No_deadline

\* __std_atomic_wait_get_deadline: the value stored in _Wait_context._Deadline
GetDeadline64(timeout, current_time) ==
    IF timeout = NoTimeout64 THEN NoTimeout64
    ELSE Add64(current_time, timeout).sum

\* _Atomic_wait_get_deadline of the header, for an unsigned long timeout
_Atomic_wait_get_deadline(timeout, current_time) ==
    IF timeout = NoTimeout32 THEN _No_deadline
    ELSE Add64(current_time, timeout).sum

\* _Get_remaining_wait_milliseconds, lines 45-48: the deadline is taken for
\* "no deadline" and the result is INFINITE
TreatedAsNoDeadline(deadline) == deadline = NoTimeout64

\* timeouts of the inline function: 32-bit values
Timeouts32 == {ToU64(0), ToU64(1), ToU64(_Ten_days + 1),
               <<LimbBase - 2, LimbBase - 1, 0, 0>>, NoTimeout32}

\* timeouts of the exported function: 64-bit values
Timeouts64 == Timeouts32 \cup
    {<<LimbBase - 3, LimbBase - 1, LimbBase - 1, LimbBase - 1>>,
     <<LimbBase - 2, LimbBase - 1, LimbBase - 1, LimbBase - 1>>, NoTimeout64}

DeadlineCfg(function, timeout) == [OffCfg EXCEPT !.role = function, !.wide = timeout]

\* two threads that compute a deadline at some tick count, one with the inline
\* function of the header and one with the exported function
InitDeadline ==
    /\ symbols = NoPfn
    /\ \E t32 \in Timeouts32, t64 \in Timeouts64 :
          InitProcess([Idle EXCEPT !["w1"] = DeadlineCfg("deadline_inline", t32),
                                   !["w2"] = DeadlineCfg("deadline_export", t64)])

\* one call of the deadline function of the thread
DeadlineCall(t) ==
    /\ Pc(t) = "d_call"
    /\ loc' = [loc EXCEPT
                  ![t].dl = IF cfg[t].role = "deadline_inline"
                            THEN _Atomic_wait_get_deadline(cfg[t].wide, ToU64(now))
                            ELSE GetDeadline64(cfg[t].wide, ToU64(now)),
                  ![t].pc = "d_done"]
    /\ UNCHANGED ctx
    /\ SharedUnchanged

NextDeadline == (\E t \in Threads : DeadlineCall(t)) \/ Tick

SpecDeadline == InitDeadline /\ [][NextDeadline]_vars

Deadliners == {t \in Threads : cfg[t].role \in {"deadline_inline", "deadline_export"}}

\* the timeout sentinel of the function thread t calls
NoTimeoutOf(t) == IF cfg[t].role = "deadline_inline" THEN NoTimeout32 ELSE NoTimeout64

\* C21: a deadline call with the no-timeout sentinel yields the no-deadline
\* sentinel; with any other timeout it yields the sum now + timeout, without
\* wrap, and the remaining-time computation does not take that deadline for
\* the no-deadline sentinel.
C21_DeadlineComputation ==
    [][\A t \in Deadliners :
          (Pc(t) = "d_call" /\ loc'[t].pc = "d_done") =>
              IF cfg[t].wide = NoTimeoutOf(t)
              THEN TreatedAsNoDeadline(loc'[t].dl)
              ELSE /\ Add64(ToU64(now), cfg[t].wide).carry = 0
                   /\ loc'[t].dl = Add64(ToU64(now), cfg[t].wide).sum
                   /\ ~TreatedAsNoDeadline(loc'[t].dl)]_vars

----------------------------------------------------------------------------
(* Entry selection *)

\* addresses with bits in each of the four low bytes
SelectAddrs ==
    {0, 1, 255, 256, 257, 65536, 65793, 16777216, 16843009, 2147483647,
     AddrX, AddrY, AddrZ}

SelectorCfg(a) == [OffCfg EXCEPT !.role = "selector", !.addr = a]

\* two threads that select the entry of an address, again and again, while the
\* clock advances
InitEntry ==
    /\ symbols = NoPfn
    /\ \E a1 \in SelectAddrs, a2 \in SelectAddrs :
          InitProcess([Idle EXCEPT !["w1"] = SelectorCfg(a1),
                                   !["w2"] = SelectorCfg(a2)])

\* one call of _Atomic_wait_table_entry; the caller keeps the index of the
\* entry it was given
EntryCall(t) ==
    /\ Pc(t) \in {"e_call", "e_done"}
    /\ Pc(t) = "e_done" => now > loc[t].obs
    /\ loc' = [loc EXCEPT ![t].ret = _Atomic_wait_table_entry(cfg[t].addr),
                          ![t].obs = now,
                          ![t].pc = "e_done"]
    /\ UNCHANGED ctx
    /\ SharedUnchanged

NextEntry == (\E t \in Threads : EntryCall(t)) \/ Tick

SpecEntry == InitEntry /\ [][NextEntry]_vars

Selectors == {t \in Threads : cfg[t].role = "selector"}

\* C22: the index a call of the entry selection returned lies in 0..255, is the
\* index the same address selects at any later time, and is the index every
\* other caller got for the same address; a call changes nothing but the
\* caller's own locals.
C22_EntrySelection ==
    /\ [](\A t \in Selectors :
             Pc(t) = "e_done" =>
                 /\ loc[t].ret \in 0 .. 255
                 /\ loc[t].ret = _Atomic_wait_table_entry(cfg[t].addr)
                 /\ \A u \in Selectors :
                       (Pc(u) = "e_done" /\ cfg[u].addr = cfg[t].addr)
                           => loc[u].ret = loc[t].ret)
    /\ [][(\E t \in Selectors : loc'[t] # loc[t]) =>
             UNCHANGED <<apiLevel, pfn, symbols, mem, counter, lock, cond, woa, now, ctx, cfg>>]_vars

\* C22 witness: two distinct addresses selected the same entry, one of them in
\* a call made after the clock advanced
C22_Witness ==
    /\ Pc("w1") = "e_done" /\ Pc("w2") = "e_done"
    /\ cfg["w1"].addr # cfg["w2"].addr
    /\ loc["w1"].ret = loc["w2"].ret
    /\ loc["w1"].obs # loc["w2"].obs

----------------------------------------------------------------------------
(* The version counter *)

\* the thread that takes the step
Stepping(t) == loc'[t] # loc[t] \/ ctx'[t] # ctx[t]

\* C23: every entry's counter is 0 at static initialisation and no step lowers
\* it; the steps of wait and unwait calls, and the steps of the feature query
\* made inside any call, leave every counter as it was: only the increment of a
\* notify_indirect call changes one.
C23_CounterOnlyIncreases ==
    /\ \A e \in Entries : counter[e] = 0
    /\ [][/\ \A e \in Entries : counter'[e] >= counter[e]
          /\ \A t \in Threads :
                (Stepping(t) /\ (t \in Waiters \/ Pc(t) # "n_inc"))
                    => counter' = counter]_vars

\* C23 witness: a wait_indirect call and its unwait have returned, two
\* notify_indirect calls have raised the entry's counter to 2, and the waiter's
\* snapshot was taken in between
C23_Witness ==
    /\ Pc("w1") = "w_done" /\ cfg["w1"].indirect
    /\ counter[Entry("w1")] = 2
    /\ ctx["w1"].counter = 1

----------------------------------------------------------------------------
(* Spinning before a native direct wait *)

\* C24: once WaitOnAddress is in use, a call of the spin function for a direct
\* wait returns false and leaves the wait context as it was, whatever the spin
\* budget.
C24_NoSpinOnNativeDirect ==
    [][\A w \in Waiters :
          (/\ apiLevel = __has_wait_on_address
           /\ ~cfg[w].indirect
           /\ Pc(w) = "w_spin"
           /\ loc'[w].pc # "w_spin")
              => /\ loc'[w].pc # "w_check"
                 /\ ctx'[w] = ctx[w]]_vars

----------------------------------------------------------------------------
(* The blocking step of the native indirect wait *)

\* the step by which the blocking call of __std_atomic_wait_indirect returns
BlockingReturn(w) ==
    /\ cfg[w].indirect
    /\ Pc(w) \in {"w_woa_true", "w_woa_false"}
    /\ loc'[w].pc = "w_ret"

\* C25 as stated: the blocking call of wait_indirect on the native path returns
\* with the phase reset to the pre-snapshot phase, whether it returns true or,
\* after a timeout, false.
C25_ResetBeforeEveryReturn ==
    [][\A w \in Waiters :
          BlockingReturn(w) => ctx'[w].phase = _Atomic_wait_phase_wait_none]_vars

\* C25 amended: the blocking call of wait_indirect on the native path, entered
\* in the Blocked-on-counter phase, returns true with the phase reset to the
\* pre-snapshot phase when WaitOnAddress succeeded, and returns false with the
\* phase still Blocked-on-counter and the snapshot untouched when it timed out.
C25_ResetOnlyWhenWoken ==
    [][\A w \in Waiters :
          BlockingReturn(w) =>
              /\ ctx[w].phase = _Atomic_wait_phase_wait_counter
              /\ ctx'[w].counter = ctx[w].counter
              /\ IF Pc(w) = "w_woa_true"
                 THEN /\ loc'[w].res = "woken"
                      /\ ctx'[w].phase = _Atomic_wait_phase_wait_none
                 ELSE /\ loc'[w].res = "timeout"
                      /\ ctx'[w].phase = _Atomic_wait_phase_wait_counter]_vars

\* C25 witness: an indirect wait on the native path has returned false after a
\* timeout that elapsed in WaitOnAddress, its phase still Blocked-on-counter
C25_Witness ==
    \E w \in Waiters :
        /\ cfg[w].indirect
        /\ apiLevel = __has_wait_on_address
        /\ Pc(w) = "w_ret"
        /\ loc[w].res = "timeout"
        /\ now > 0
        /\ ctx[w].phase = _Atomic_wait_phase_wait_counter

----------------------------------------------------------------------------
(* The first call of the native indirect wait *)

\* an indirect waiter on X, with a deadline one tick ahead or with none, and
\* two indirect notifiers of the entry of X, with and without WaitOnAddress
InitSnapshot ==
    /\ symbols \in {Resolved, NoPfn}
    /\ \E to \in {1, _Atomic_wait_no_timeout}, o \in BOOLEAN :
          InitProcess([Idle EXCEPT
              !["w1"] = WaiterCfg(AddrX, TRUE, to),
              !["n1"] = NotifierCfg(AddrX, TRUE, o),
              !["n2"] = NotifierCfg(AddrY, TRUE, o)])

NextSnapshot ==
    \/ \E t \in Threads : ThreadStep(t) \/ TimeoutStep(t)
    \/ LocksTick
    \/ TimerTick

SpecSnapshot == InitSnapshot /\ [][NextSnapshot]_vars

\* the step of __std_atomic_wait_indirect taken in the pre-snapshot phase
SnapshotCall(w) ==
    /\ cfg[w].indirect
    /\ Pc(w) = "w_ind"
    /\ ctx[w].phase = _Atomic_wait_phase_wait_none
    /\ loc'[w] # loc[w]

\* C26: on the native path a wait_indirect call made in the pre-snapshot phase
\* stores the entry's current counter in the context, moves the phase to
\* Blocked-on-counter and returns true in that same step: it does not enter
\* WaitOnAddress, changes no counter, and does so whether or not the deadline
\* has passed, leaving the deadline as it was.
C26_FirstCallIsSnapshot ==
    [][\A w \in Waiters :
          SnapshotCall(w) =>
              /\ ctx'[w].counter = counter[Entry(w)]
              /\ ctx'[w].phase = _Atomic_wait_phase_wait_counter
              /\ ctx'[w].deadline = ctx[w].deadline
              /\ loc'[w].pc = "w_ret" /\ loc'[w].res = "woken"
              /\ woa' = woa
              /\ counter' = counter]_vars

\* C26 witness: a first call made after the deadline passed and after a notify
\* has returned true with the raised counter as its snapshot
C26_Witness ==
    \E w \in Waiters :
        /\ cfg[w].indirect
        /\ Pc(w) = "w_ret" /\ loc[w].res = "woken"
        /\ ctx[w].phase = _Atomic_wait_phase_wait_counter
        /\ ctx[w].counter = counter[Entry(w)] /\ ctx[w].counter > 0
        /\ FiniteDeadline(w) /\ now >= ctx[w].deadline

----------------------------------------------------------------------------
(* The fallback notify *)

FallbackNotifyPcs == {"n_fb_acq", "n_fb_rel", "n_fb_wake"}

\* waiter w holds its entry's lock, has re-checked the value under it and found
\* it unchanged, and is on its way to SleepConditionVariableSRW
BetweenRecheckAndSleep(w) ==
    /\ ctx[w].phase = _Atomic_wait_phase_wait_locked
    /\ lock[Entry(w)] = w
    /\ Pc(w) \in {"w_spin", "w_have", "w_fb", "w_fb_call"} \/ loc[w].cont = "w_have"

\* the WakeAllConditionVariable step of notifier n
Broadcast(n) == Pc(n) = "n_fb_wake" /\ loc'[n].pc = "n_done"

\* C27 as stated: the fallback notify takes and releases the entry's lock before
\* the broadcast, and the broadcast is never issued while a waiter of the entry
\* holds the lock between its locked re-check and its sleep; the notifier
\* returns holding no lock and changes neither a counter nor a wait context.
C27_NoBroadcastWhileWaiterHoldsLock ==
    [][\A n \in Notifiers :
          /\ Broadcast(n) =>
                /\ \A w \in Waiters : Entry(w) = Entry(n) => ~BetweenRecheckAndSleep(w)
                /\ HeldBy(n) = {}
          /\ (Pc(n) \in FallbackNotifyPcs /\ loc'[n] # loc[n])
                => counter' = counter /\ ctx' = ctx]_vars

\* C27 amended: the fallback notify reaches the broadcast only by releasing the
\* entry's lock, which it held alone: while it holds the lock every waiter of
\* the entry in the Blocked-on-lock phase is asleep on the condition variable or
\* re-acquiring after a sleep, none is between its re-check and its sleep.  A
\* waiter may take the lock between the release and the broadcast.  The
\* broadcast empties the condition variable and changes no lock; the notifier
\* returns holding no lock and changes neither a counter nor a wait context.
C27_NotifyPassesThroughLock ==
    /\ [](\A n \in Notifiers :
             Pc(n) = "n_fb_rel" =>
                 /\ lock[Entry(n)] = n
                 /\ \A w \in Waiters :
                       (Entry(w) = Entry(n) /\ ctx[w].phase = _Atomic_wait_phase_wait_locked)
                           => Pc(w) \in {"w_fb_sleep", "w_fb_reacq_ok", "w_fb_reacq_to"})
    /\ [][\A n \in Notifiers :
             /\ (Pc(n) # "n_fb_wake" /\ loc'[n].pc = "n_fb_wake")
                   => lock[Entry(n)] = n /\ lock'[Entry(n)] = NoThread
             /\ Broadcast(n) =>
                   /\ HeldBy(n) = {}
                   /\ lock' = lock
                   /\ cond'[Entry(n)] = {}
             /\ (Pc(n) \in FallbackNotifyPcs /\ loc'[n] # loc[n])
                   => counter' = counter /\ ctx' = ctx]_vars

\* C27 witness: the notifier has released the lock and is about to broadcast;
\* one waiter of the entry sleeps on the condition variable and another has
\* taken the lock since the release and has not gone to sleep yet
C27_Witness ==
    /\ Pc("n1") = "n_fb_wake"
    /\ "w1" \in cond[Entry("n1")]
    /\ Entry("w2") = Entry("n1")
    /\ BetweenRecheckAndSleep("w2")

----------------------------------------------------------------------------
(* The phases of the fallback wait *)

\* thread w enters _Atomic_wait_fallback before its deadline
FallbackCall(w) ==
    /\ Pc(w) = "w_fb"
    /\ _Get_remaining_wait_milliseconds(ctx[w].deadline, now) # 0
    /\ loc'[w] # loc[w]

AsleepIn(w, cv) == w \in cv[Entry(w)]

\* C28: a fallback wait entered before the deadline in the Blocked-none phase
\* takes the entry's lock, sets the phase to Blocked-on-lock and returns true
\* without having slept; entered in Blocked-on-lock it releases the lock and
\* sleeps on the entry's condition variable for the remaining time it computed
\* on entry; a woken
\* sleep returns true with the lock held again and the phase still
\* Blocked-on-lock; a timed-out sleep ends no earlier than its timeout and
\* returns false with the lock released and the phase Blocked-none.
C28_FallbackPhases ==
    [][\A w \in Waiters :
          /\ (FallbackCall(w) /\ ctx[w].phase = _Atomic_wait_phase_wait_none)
                => /\ loc'[w].pc = "w_fb_acq"
                   /\ ~AsleepIn(w, cond')
          /\ (Pc(w) = "w_fb_acq" /\ loc'[w] # loc[w])
                => /\ lock[Entry(w)] = NoThread /\ lock'[Entry(w)] = w
                   /\ ctx'[w].phase = _Atomic_wait_phase_wait_locked
                   /\ loc'[w].pc = "w_ret" /\ loc'[w].res = "woken"
                   /\ ~AsleepIn(w, cond')
          /\ (FallbackCall(w) /\ ctx[w].phase = _Atomic_wait_phase_wait_locked)
                => /\ loc'[w].pc = "w_fb_call"
                   /\ loc'[w].rem = _Get_remaining_wait_milliseconds(ctx[w].deadline, now)
                   /\ lock[Entry(w)] = w /\ lock' = lock
                   /\ ctx'[w] = ctx[w]
          /\ (Pc(w) = "w_fb_call" /\ loc'[w] # loc[w])
                => /\ lock[Entry(w)] = w /\ lock'[Entry(w)] = NoThread
                   /\ AsleepIn(w, cond')
                   /\ loc'[w].pc = "w_fb_sleep"
                   /\ loc'[w].wakeAt = WakeTime(loc[w].rem)
                   /\ ctx'[w] = ctx[w]
          /\ (Pc(w) = "w_fb_sleep" /\ loc'[w].pc = "w_fb_reacq_to")
                => now >= loc[w].wakeAt
          /\ (Pc(w) = "w_fb_reacq_ok" /\ loc'[w] # loc[w])
                => /\ lock'[Entry(w)] = w
                   /\ ctx'[w].phase = _Atomic_wait_phase_wait_locked
                   /\ loc'[w].pc = "w_ret" /\ loc'[w].res = "woken"
          /\ (Pc(w) = "w_fb_to" /\ loc'[w] # loc[w])
                => /\ lock[Entry(w)] = w /\ lock'[Entry(w)] = NoThread
                   /\ ctx'[w].phase = _Atomic_wait_phase_wait_none
                   /\ loc'[w].pc = "w_ret" /\ loc'[w].res = "timeout"]_vars

\* C28 witness: one waiter's sleep has timed out and it holds the lock again,
\* about to release it and return false, while a waiter of another entry has
\* returned true from a sleep with its lock held and its phase Blocked-on-lock
C28_Witness ==
    /\ Pc("w1") = "w_fb_to" /\ lock[Entry("w1")] = "w1" /\ now >= ctx["w1"].deadline
    /\ Pc("w2") = "w_ret" /\ loc["w2"].res = "woken"
    /\ Entry("w2") # Entry("w1") /\ lock[Entry("w2")] = "w2"
    /\ ctx["w2"].phase = _Atomic_wait_phase_wait_locked

----------------------------------------------------------------------------
(* Failures of the native wait *)

ErrorCfg(ind, to, sz, dbg) ==
    [WaiterCfg(AddrX, ind, to) EXCEPT !.size = sz, !.debug = dbg]

\* a waiter with a deadline one tick ahead or with none, direct on 1 or on 3
\* bytes or indirect, in a build with or without _DEBUG
InitError ==
    /\ symbols \in {Resolved, NoPfn}
    /\ \E ind \in BOOLEAN, to \in {1, _Atomic_wait_no_timeout}, sz \in {1, 3},
          dbg \in BOOLEAN :
          InitProcess([Idle EXCEPT !["w1"] = ErrorCfg(ind, to, sz, dbg)])

SpecError == InitError /\ [][NextTimed]_vars

\* the step that follows a failed WaitOnAddress of waiter w
FailedReturn(w) == Pc(w) \in {"w_woa_false", "w_woa_error"} /\ loc'[w] # loc[w]

\* C29: after WaitOnAddress reported failure, wait_direct and wait_indirect
\* return false when the failure is a timeout and end the process when it is
\* any other failure: they return true after no failure and report no failure
\* other than a timeout as a timeout.
C29_NativeWaitErrors ==
    [][\A w \in Waiters :
          FailedReturn(w) =>
              IF Pc(w) = "w_woa_false"
              THEN loc'[w].pc = "w_ret" /\ loc'[w].res = "timeout"
              ELSE loc'[w].pc = "abort"]_vars

----------------------------------------------------------------------------
(* Lock ownership and the phase *)

\* thread w is inside SleepConditionVariableSRW: asleep on the condition
\* variable, or woken and re-acquiring the lock before the call returns
InSleep(w) == Pc(w) \in {"w_fb_sleep", "w_fb_reacq_ok", "w_fb_reacq_to"}

\* the waiters of entry e whose phase is Blocked-on-lock and that are running
RunningLocked(e) ==
    {w \in Waiters : /\ Entry(w) = e
                     /\ ctx[w].phase = _Atomic_wait_phase_wait_locked
                     /\ ~InSleep(w)
                     /\ Pc(w) # "abort"}

\* C30: on the fallback level, a thread that has returned from a wait call or
\* from the unwait call holds the lock of its entry exactly when the phase of
\* its context is Blocked-on-lock; and of the contexts of one entry at most one
\* is in Blocked-on-lock while its thread is running, that is, outside
\* SleepConditionVariableSRW.
C30_LockMatchesPhase ==
    /\ \A w \in Waiters :
          Pc(w) \in {"w_ret", "w_done"} =>
              (lock[Entry(w)] = w <=> ctx[w].phase = _Atomic_wait_phase_wait_locked)
    /\ \A e \in Entries : Cardinality(RunningLocked(e)) <= 1

\* C30 witness: two waiters of one entry are both in Blocked-on-lock; one has
\* returned from its wait call with the lock, the other was woken and is
\* waiting inside the sleep to take the lock again
C30_Witness ==
    /\ Entry("w1") = Entry("w2")
    /\ ctx["w1"].phase = _Atomic_wait_phase_wait_locked
    /\ ctx["w2"].phase = _Atomic_wait_phase_wait_locked
    /\ \E a \in {"w1", "w2"}, b \in {"w1", "w2"} :
          /\ a # b
          /\ Pc(a) = "w_ret" /\ lock[Entry(a)] = a
          /\ Pc(b) = "w_fb_reacq_ok"

----------------------------------------------------------------------------
(* The order of the feature levels *)

\* a direct waiter, a notify_one_direct notifier and one caller of
\* __std_atomic_set_api_level, all before first use of the process, for each
\* outcome of the three symbol lookups
InitLevel ==
    /\ symbols \in AllSymbols
    /\ \E r \in RequestedLevels :
          InitProcess([Idle EXCEPT
              !["w1"] = WaiterCfg(AddrX, FALSE, _Atomic_wait_no_timeout),
              !["n1"] = NotifierCfg(AddrX, FALSE, TRUE),
              !["a1"] = AdminCfg(r)])

SpecLevel == InitLevel /\ [][NextRace]_vars

\* C31: whatever the interleaving of feature queries, set_api_level calls and
\* detections, no step lowers the level in the order __not_set < __detecting <
\* __has_srwlock < __has_wait_on_address: a terminal level is never followed by
\* __not_set or __detecting, and __has_wait_on_address never by __has_srwlock.
C31_LevelMonotone ==
    [][/\ apiLevel' >= apiLevel
       /\ apiLevel > __detecting => apiLevel' > __detecting
       /\ apiLevel = __has_wait_on_address => apiLevel' = __has_wait_on_address]_vars

\* C31 witness: the level has passed through all four values: a set_api_level
\* call replaced __detecting by __has_srwlock and the detector's store then
\* raised it to __has_wait_on_address
C31_Witness ==
    /\ apiLevel = __has_wait_on_address
    /\ \E a \in Admins : loc[a].forced = "detecting"

----------------------------------------------------------------------------
(* The level a query returns with *)

GetPcs == {"g_load", "g_cas", "g_probe", "g_pfn", "g_level"}

\* the step by which the _Get_wait_functions call of thread t returns
GetReturns(t) == Pc(t) \in GetPcs /\ loc'[t].pc \notin GetPcs \cup {"abort"}

\* C32: when a _Get_wait_functions call returns the level is terminal; the
\* value a set_api_level call returns is terminal; and the branch on
\* _Have_wait_functions in a wait or a notify is taken on a terminal level.
C32_QueryReturnsTerminal ==
    [][\A t \in Threads :
          /\ GetReturns(t) => Terminal(apiLevel')
          /\ (Pc(t) = "a_ret" /\ loc'[t].pc = "a_done") => Terminal(loc'[t].ret)
          /\ (Pc(t) \in {"w_have", "n_have"} /\ loc'[t] # loc[t]) => Terminal(apiLevel)]_vars

\* C32 witness: a query that lost the compare_exchange to a set_api_level call
\* has returned, the wait took the SRW-lock path on the forced level, and the
\* set_api_level call returned that level
C32_Witness ==
    /\ Pc("w1") = "w_fb"
    /\ Pc("a1") = "a_done" /\ loc["a1"].ret = __has_srwlock
    /\ loc["a1"].forced = "not_set"
    /\ symbols = Resolved

----------------------------------------------------------------------------
(* Wait calls on a context in any phase *)

\* the phase words of the enumeration, and a spin phase with budget left
PhaseWords ==
    {_Atomic_wait_phase_init_spin_count,
     _Atomic_wait_phase_spin,
     _Atomic_wait_phase_spin + _Atomic_spin_value_step,
     _Atomic_wait_phase_wait_locked,
     _Atomic_wait_phase_wait_none,
     _Atomic_wait_phase_wait_counter,
     _Atomic_wait_phase_yield,
     _Atomic_wait_phase_sleep}

\* a thread enters __std_atomic_wait_direct or __std_atomic_wait_indirect with
\* a context in any phase, whose deadline has passed, lies one tick ahead or is
\* none; a context in the Blocked-on-lock phase comes with the entry's lock
InitPhase ==
    /\ symbols \in {Resolved, NoPfn}
    /\ \E ind \in BOOLEAN, word \in PhaseWords, dl \in {0, 1, _Atomic_wait_no_timeout} :
          /\ apiLevel = __not_set
          /\ pfn = NoPfn
          /\ mem = [a \in Addrs |-> 0]
          /\ counter = [e \in Entries |-> 0]
          /\ cond = [e \in Entries |-> {}]
          /\ woa = {}
          /\ now = 0
          /\ cfg = [Idle EXCEPT !["w1"] = WaiterCfg(AddrX, ind, dl)]
          /\ lock = [e \in Entries |->
                        IF word = _Atomic_wait_phase_wait_locked /\ e = Entry("w1")
                        THEN "w1" ELSE NoThread]
          /\ ctx = [t \in Threads |->
                       IF t = "w1"
                       THEN [FreshContext EXCEPT !.phase = word, !.deadline = dl]
                       ELSE FreshContext]
          /\ loc = [t \in Threads |->
                       IF t = "w1"
                       THEN [FreshLocals("waiter") EXCEPT !.pc = "g_load", !.cont = "w_have"]
                       ELSE FreshLocals(cfg[t].role)]

PhaseWaiterStep(t) ==
    \/ WaitLoad(t)
    \/ WaitSpin(t)
    \/ WaitHave(t)
    \/ WaitIndirect(t)
    \/ WaitOnAddress(t)
    \/ WaitNativeReturn(t)
    \/ WaitFallback(t)
    \/ FallbackSleep(t)
    \/ FallbackAcquire(t)
    \/ FallbackReacquire(t)
    \/ WaitReturn(t)
    \/ Unwait(t)

NextPhase ==
    \/ \E t \in Threads : GetStep(t) \/ PhaseWaiterStep(t) \/ TimeoutStep(t) \/ OsStep(t)
    \/ Tick
    \/ TimerTick

SpecPhase == InitPhase /\ [][NextPhase]_vars

DeadlinePassed(w) == _Get_remaining_wait_milliseconds(ctx[w].deadline, now) = 0

\* C33: a fallback wait entered after the deadline returns false whatever the
\* phase word and leaves the context alone; entered before the deadline with a
\* phase word other than Blocked-none and Blocked-on-lock it ends the process,
\* and with one of these two it does not.  A native wait_indirect entered with
\* a phase word other than Blocked-none and Blocked-on-counter ends the
\* process, and with one of these two it does not.
C33_UnexpectedPhaseIsFatal ==
    [][\A w \in Waiters :
          /\ (Pc(w) = "w_fb" /\ loc'[w] # loc[w]) =>
                IF DeadlinePassed(w)
                THEN /\ loc'[w].pc = "w_ret" /\ loc'[w].res = "timeout"
                     /\ ctx'[w] = ctx[w]
                ELSE (loc'[w].pc = "abort") <=>
                        ctx[w].phase \notin {_Atomic_wait_phase_wait_none,
                                             _Atomic_wait_phase_wait_locked}
          /\ (Pc(w) = "w_ind" /\ loc'[w] # loc[w]) =>
                ((loc'[w].pc = "abort") <=>
                    ctx[w].phase \notin {_Atomic_wait_phase_wait_none,
                                         _Atomic_wait_phase_wait_counter})]_vars

\* C33 witness: the process has ended in a native wait_indirect whose context
\* was in the Blocked-on-lock phase, the lock still held
C33_Witness ==
    /\ Pc("w1") = "abort"
    /\ cfg["w1"].indirect
    /\ apiLevel = __has_wait_on_address
    /\ ctx["w1"].phase = _Atomic_wait_phase_wait_locked
    /\ lock[Entry("w1")] = "w1"

----------------------------------------------------------------------------
(* unwait, called once and again *)

UnwaiterCfg(a, st) == [OffCfg EXCEPT !.role = "unwaiter", !.addr = a, !.static = st]

\* a thread calls unwait twice on a context in any phase, in either build; a
\* context in the Blocked-on-lock phase comes with the entry's lock in the
\* build that has the lock.  In that build the fallback is pinned and a waiter
\* and a notifier of a second address of the same entry run beside the two calls.
InitUnwait ==
    /\ symbols = NoPfn
    /\ \E word \in PhaseWords, st \in BOOLEAN :
          /\ apiLevel = __has_srwlock
          /\ pfn = NoPfn
          /\ mem = [a \in Addrs |-> 0]
          /\ counter = [e \in Entries |-> 0]
          /\ cond = [e \in Entries |-> {}]
          /\ woa = {}
          /\ now = 0
          /\ cfg = [Idle EXCEPT
                 !["w1"] = UnwaiterCfg(AddrX, st),
                 !["w2"] = IF st THEN OffCfg
                           ELSE WaiterCfg(AddrY, FALSE, _Atomic_wait_no_timeout),
                 !["n1"] = IF st THEN OffCfg
                           ELSE NotifierCfg(AddrY, FALSE, FALSE)]
          /\ lock = [e \in Entries |->
                        IF ~st /\ word = _Atomic_wait_phase_wait_locked /\ e = Entry("w1")
                        THEN "w1" ELSE NoThread]
          /\ ctx = [t \in Threads |->
                       IF t = "w1" THEN [FreshContext EXCEPT !.phase = word]
                       ELSE FreshContext]
          /\ loc = [t \in Threads |-> FreshLocals(cfg[t].role)]

\* one call of __std_atomic_unwait_direct or __std_atomic_unwait_indirect; the
\* caller keeps the phase word it passed to its first call
UnwaitCall(t) ==
    /\ Pc(t) \in {"u_call", "u_again"}
    /\ __std_atomic_unwait(t)
    /\ loc' = [loc EXCEPT ![t].pc = IF Pc(t) = "u_call" THEN "u_again" ELSE "u_done",
                          ![t].obs = IF Pc(t) = "u_call" THEN ctx[t].phase ELSE @]
    /\ UNCHANGED <<apiLevel, pfn, symbols, mem, counter, cond, woa, now, cfg>>

NextUnwait == \E t \in Threads : UnwaitCall(t) \/ CollideStep(t)

SpecUnwait == InitUnwait /\ [][NextUnwait]_vars

Unwaiters == {t \in Threads : cfg[t].role = "unwaiter"}

\* C34: in the build with the fallback, an unwait call releases the entry's
\* lock and sets the phase to Blocked-none when the phase is Blocked-on-lock,
\* and changes neither a lock nor the context in any other phase; the second of
\* two calls changes nothing, whatever other threads did in between; in the
\* build with WaitOnAddress linked statically no call changes anything.
C34_UnwaitReleasesWhenLocked ==
    [][\A t \in Unwaiters :
          (Pc(t) \in {"u_call", "u_again"} /\ loc'[t] # loc[t]) =>
              /\ IF ~cfg[t].static /\ ctx[t].phase = _Atomic_wait_phase_wait_locked
                 THEN /\ lock[Entry(t)] = t
                      /\ lock' = [lock EXCEPT ![Entry(t)] = NoThread]
                      /\ ctx' = [ctx EXCEPT ![t].phase = _Atomic_wait_phase_wait_none]
                 ELSE lock' = lock /\ ctx' = ctx
              /\ Pc(t) = "u_again" => lock' = lock /\ ctx' = ctx
              /\ UNCHANGED <<apiLevel, pfn, mem, counter, cond, woa>>]_vars

\* C34 witness: both calls have returned; the first released the lock of a
\* context in Blocked-on-lock, a waiter of the same entry has taken the lock
\* since and still holds it after the second call
C34_Witness ==
    /\ Pc("w1") = "u_done"
    /\ loc["w1"].obs = _Atomic_wait_phase_wait_locked
    /\ ~cfg["w1"].static
    /\ ctx["w1"].phase = _Atomic_wait_phase_wait_none
    /\ lock[Entry("w1")] = "w2"

----------------------------------------------------------------------------
(* Direct and indirect operations on the fallback level *)

\* C35: while the level is __has_srwlock, a wait and a notify take the same
\* branch whether direct or indirect, notify_one or notify_all: the wait enters
\* _Atomic_wait_fallback and the notify _Atomic_notify_fallback, no thread is
\* at a statement of the native path, and no step changes an entry's counter
\* or the counter snapshot of a context.
C35_FallbackIndirectIsDirect ==
    /\ [](apiLevel = __has_srwlock => \A t \in Threads : Pc(t) \notin NativePcs \cup {"n_inc"})
    /\ [][apiLevel = __has_srwlock =>
             /\ counter' = counter
             /\ \A t \in Threads :
                   /\ ctx'[t].counter = ctx[t].counter
                   /\ (Pc(t) = "w_have" /\ loc'[t] # loc[t]) => loc'[t].pc = "w_fb"
                   /\ (Pc(t) = "n_have" /\ loc'[t] # loc[t]) => loc'[t].pc = "n_fb_acq"]_vars

\* C35 witness: on the fallback level an indirect wait was ended by a
\* notify_one_indirect; the entry's counter and the snapshot are untouched
C35_Witness ==
    /\ apiLevel = __has_srwlock
    /\ cfg["w1"].indirect /\ cfg["n1"].indirect /\ cfg["n1"].one
    /\ Pc("w1") = "w_done" /\ Pc("n1") = "n_done"
    /\ loc["w1"].obs # cfg["w1"].expected
    /\ counter[Entry("w1")] = 0 /\ ctx["w1"].counter = 0

----------------------------------------------------------------------------
(* notify_one_indirect *)

\* two indirect waiters on two addresses of one entry and an indirect notifier
\* of the first, notify_one or notify_all, with and without WaitOnAddress
InitWakeAll ==
    /\ symbols \in {Resolved, NoPfn}
    /\ \E o \in BOOLEAN :
          InitProcess([Idle EXCEPT
              !["w1"] = WaiterCfg(AddrX, TRUE, _Atomic_wait_no_timeout),
              !["w2"] = WaiterCfg(AddrY, TRUE, _Atomic_wait_no_timeout),
              !["n1"] = NotifierCfg(AddrX, TRUE, o)])

SpecWakeAll == InitWakeAll /\ [][NextNotify]_vars

\* the waiters blocked in WaitOnAddress on the counter of entry e
OnCounter(e) == {w \in woa : loc[w].key = <<"ctr", e>>}

\* C36: a notify_one_indirect call does what a notify_all_indirect call does,
\* step by step: it takes the same branches, on the native level it raises the
\* entry's counter by one and wakes every thread blocked on that counter, and
\* on the fallback level it empties the entry's condition variable.
C36_NotifyOneIndirectIsAll ==
    [][\A n \in IndirectNotifiers :
          /\ (Pc(n) = "n_have" /\ loc'[n] # loc[n]) =>
                loc'[n].pc = IF _Have_wait_functions THEN "n_inc" ELSE "n_fb_acq"
          /\ (Pc(n) = "n_inc" /\ loc'[n] # loc[n]) =>
                counter' = [counter EXCEPT ![Entry(n)] = @ + 1]
          /\ (Pc(n) = "n_wake" /\ loc'[n].pc = "n_done") =>
                /\ woa' = woa \ OnCounter(Entry(n))
                /\ \A w \in OnCounter(Entry(n)) : loc'[w].pc = "w_woa_true"
          /\ (Pc(n) = "n_fb_wake" /\ loc'[n].pc = "n_done") =>
                /\ cond'[Entry(n)] = {}
                /\ \A w \in cond[Entry(n)] : loc'[w].pc = "w_fb_reacq_ok"]_vars

\* C36 witness: one notify_one_indirect call has woken both waiters blocked on
\* the entry's counter
C36_Witness ==
    /\ cfg["n1"].one /\ cfg["n1"].indirect
    /\ Pc("n1") = "n_done"
    /\ Pc("w1") = "w_woa_true" /\ Pc("w2") = "w_woa_true"
    /\ counter[Entry("n1")] = 1

----------------------------------------------------------------------------
(* The thread-pool byte wait: __std_execution_wait_on_uchar *)

\* a caller of __std_execution_wait_on_uchar(_Address, _Compare); w8 says
\* whether the build has _STL_WIN32_WINNT >= _WIN32_WINNT_WIN8
UcharCfg(a, e, w8) ==
    [OffCfg EXCEPT !.role = "uchar", !.addr = a, !.expected = e, !.win8 = w8]

\* two byte waiters of one address, both with the byte's initial value as the
\* comparand, a notifier of that address and a notifier of a second address of
\* the same wait-table entry; the feature level has been resolved by an
\* earlier use, and a build for Windows 8 runs where WaitOnAddress exists
InitUchar ==
    /\ symbols \in {Resolved, NoPfn}
    /\ pfn = symbols
    /\ apiLevel = IF symbols = Resolved THEN __has_wait_on_address ELSE __has_srwlock
    /\ mem = [a \in Addrs |-> 0]
    /\ counter = [e \in Entries |-> 0]
    /\ lock = [e \in Entries |-> NoThread]
    /\ cond = [e \in Entries |-> {}]
    /\ woa = {}
    /\ now = 0
    /\ \E w8 \in BOOLEAN :
          /\ w8 => symbols = Resolved
          /\ cfg = [Idle EXCEPT
                 !["w1"] = UcharCfg(AddrX, 0, w8),
                 !["w2"] = UcharCfg(AddrX, 0, w8),
                 !["n1"] = NotifierCfg(AddrX, FALSE, FALSE),
                 !["n2"] = NotifierCfg(AddrY, FALSE, FALSE)]
    /\ ctx = [t \in Threads |-> FreshContext]
    /\ loc = [t \in Threads |-> FreshLocals(cfg[t].role)]

\* a loop that returns when the wait returns, without loading the byte again
UcharWaitReturn_NoReload(t) ==
    /\ Pc(t) \in {"w_woa_true", "x_ret_fb"}
    /\ loc' = [loc EXCEPT
                 ![t].res = IF Pc(t) = "x_ret_fb" THEN "fallback" ELSE "success",
                 ![t].pc = "x_done"]
    /\ UNCHANGED ctx
    /\ SharedUnchanged

\* parallel_algorithms.cpp lines 58-60: the load of the outer loop and its test
UcharLoad(t) ==
    /\ Pc(t) = "x_load"
    /\ loc' = [loc EXCEPT ![t].obs = mem[cfg[t].addr],
                          ![t].pc = IF mem[cfg[t].addr] # cfg[t].expected
                                    THEN "x_done" ELSE "x_wait"]
    /\ UNCHANGED ctx
    /\ SharedUnchanged

\* the four-argument __std_atomic_wait_direct with _Atomic_wait_no_deadline.
\* On the native level it is WaitOnAddress, which compares and enqueues
\* atomically and returns on a wake, spuriously, or at once when the byte
\* differs.  On the fallback level it acquires the entry's lock and returns
\* _Atomic_wait_fallback.
Uchar__std_atomic_wait_direct(t) ==
    /\ Pc(t) = "x_wait"
    /\ \/ /\ apiLevel = __has_wait_on_address
          /\ IF mem[cfg[t].addr] # cfg[t].expected
             THEN /\ loc' = Goto(t, "w_woa_true")
                  /\ woa' = woa
             ELSE /\ loc' = [loc EXCEPT ![t].pc = "w_woa_blocked",
                                        ![t].key = <<"mem", cfg[t].addr>>]
                  /\ woa' = woa \cup {t}
          /\ lock' = lock
       \/ /\ apiLevel # __has_wait_on_address
          /\ lock[Entry(t)] = NoThread
          /\ lock' = [lock EXCEPT ![Entry(t)] = t]
          /\ loc' = Goto(t, "x_ret_fb")
          /\ woa' = woa
    /\ UNCHANGED <<apiLevel, pfn, symbols, mem, counter, cond, now, ctx, cfg>>

\* lines 62-63 and 75-77: the result of the wait.  Before Windows 8
\* _Atomic_wait_fallback enters the inner loop; any other result, and every
\* result in a build for Windows 8, goes round the outer loop.
UcharWaitReturn(t) ==
    /\ Pc(t) \in {"w_woa_true", "x_ret_fb"}
    /\ loc' = [loc EXCEPT
                 ![t].res = IF Pc(t) = "x_ret_fb" THEN "fallback" ELSE "success",
                 ![t].pc = IF ~cfg[t].win8 /\ Pc(t) = "x_ret_fb"
                           THEN "x_fb_load" ELSE "x_load"]
    /\ UNCHANGED ctx
    /\ SharedUnchanged

\* lines 64-69: the load of the inner loop and its test
UcharFallbackLoad(t) ==
    /\ Pc(t) = "x_fb_load"
    /\ loc' = [loc EXCEPT ![t].obs = mem[cfg[t].addr],
                          ![t].pc = IF mem[cfg[t].addr] # cfg[t].expected
                                    THEN "x_uninit" ELSE "x_fb_wait"]
    /\ UNCHANGED ctx
    /\ SharedUnchanged

\* line 67: __std_atomic_wait_fallback_uninit releases the entry's lock; line
\* 68 returns
Uchar__std_atomic_wait_fallback_uninit(t) ==
    /\ Pc(t) = "x_uninit"
    /\ lock' = [lock EXCEPT ![Entry(t)] = NoThread]
    /\ loc' = Goto(t, "x_done")
    /\ UNCHANGED <<apiLevel, pfn, symbols, mem, counter, cond, woa, now, ctx, cfg>>

\* line 71: __std_atomic_wait_fallback sleeps on the entry's condition
\* variable, which releases the lock and enqueues the thread atomically
Uchar__std_atomic_wait_fallback(t) ==
    /\ Pc(t) = "x_fb_wait"
    /\ lock[Entry(t)] = t
    /\ lock' = [lock EXCEPT ![Entry(t)] = NoThread]
    /\ cond' = [cond EXCEPT ![Entry(t)] = @ \cup {t}]
    /\ loc' = Goto(t, "w_fb_sleep")
    /\ UNCHANGED <<apiLevel, pfn, symbols, mem, counter, woa, now, ctx, cfg>>

\* the sleep re-acquires the lock before __std_atomic_wait_fallback returns to
\* the inner loop
UcharFallbackWoken(t) ==
    /\ Pc(t) = "w_fb_reacq_ok"
    /\ lock[Entry(t)] = NoThread
    /\ lock' = [lock EXCEPT ![Entry(t)] = t]
    /\ loc' = Goto(t, "x_fb_load")
    /\ UNCHANGED <<apiLevel, pfn, symbols, mem, counter, cond, woa, now, ctx, cfg>>

\* __std_execution_wait_on_uchar
UcharStep(t) ==
    \/ UcharLoad(t)
    \/ Uchar__std_atomic_wait_direct(t)
    \/ UcharWaitReturn(t)
    \/ UcharFallbackLoad(t)
    \/ Uchar__std_atomic_wait_fallback_uninit(t)
    \/ Uchar__std_atomic_wait_fallback(t)
    \/ UcharFallbackWoken(t)

\* __std_execution_wake_by_address_all after the store of the new value: it
\* forwards to __std_atomic_notify_all_direct
__std_execution_wake_by_address_all(t) ==
    GetLoad(t) \/ CollideNotifierStep(t) \/ NotifyWake(t)

NextUchar ==
    \E t \in Threads :
        \/ UcharStep(t)
        \/ __std_execution_wake_by_address_all(t)
        \/ WoaSpuriousWake(t)
        \/ CondSpuriousWake(t)

SpecUchar == InitUchar /\ [][NextUchar]_vars

\* every thread that can take a step of its own eventually takes one; the
\* operating system owes no spurious wake
SpecUcharFair ==
    /\ SpecUchar
    /\ \A t \in {"w1", "w2", "n1", "n2"} :
          WF_vars(UcharStep(t) \/ __std_execution_wake_by_address_all(t))

\* the byte waiter t returns in this step
UcharReturns(t) == cfg[t].role = "uchar" /\ Pc(t) # "x_done" /\ loc'[t].pc = "x_done"

\* the write to the byte t watches and the wake that followed it are over, and
\* the byte differs from t's comparand
WokenAfterWrite(t, n) ==
    /\ cfg[t].role = "uchar"
    /\ cfg[n].role = "notifier"
    /\ cfg[n].addr = cfg[t].addr
    /\ Pc(n) = "n_done"
    /\ mem[cfg[t].addr] # cfg[t].expected

\* C37: __std_execution_wait_on_uchar returns only from a load of the byte that
\* yielded a value different from the comparand: straight from the load of the
\* outer loop, or from the load of the inner loop through the release of the
\* lock; no return of a wait, woken or not, leads to the return without such a
\* load.  Once the write of a different value and the
\* __std_execution_wake_by_address_all after it are over, the waiter eventually
\* returns.
C37_ByteWaitReturnsOnChange ==
    /\ [][\A t \in Threads :
             /\ UcharReturns(t) =>
                   \/ Pc(t) = "x_load" /\ mem[cfg[t].addr] # cfg[t].expected
                   \/ Pc(t) = "x_uninit" /\ loc[t].obs # cfg[t].expected
             /\ (cfg[t].role = "uchar" /\ Pc(t) # "x_uninit" /\ loc'[t].pc = "x_uninit") =>
                   /\ Pc(t) = "x_fb_load"
                   /\ mem[cfg[t].addr] # cfg[t].expected
                   /\ loc'[t].obs = mem[cfg[t].addr]]_vars
    /\ \A t \in {"w1", "w2"} :
          WokenAfterWrite(t, "n1") ~> (Pc(t) = "x_done")

\* a byte waiter whose first load found the comparand and whose wait call
\* returned the fallback result has returned from the inner loop, after the
\* write and the wake, with the lock of its entry released
C37_Witness ==
    /\ Pc("w2") = "x_done"
    /\ cfg["w2"].addr = AddrX
    /\ loc["w2"].res = "fallback"
    /\ Pc("n1") = "n_done"
    /\ mem[AddrX] # cfg["w2"].expected
    /\ lock[Entry("w2")] # "w2"

----------------------------------------------------------------------------
(* The entry points and the level *)

\* the entry point a thread at a call through the table is about to use
CalledThrough(t) ==
    IF Pc(t) = "w_woa" THEN pfn.wait
    ELSE IF cfg[t].one /\ ~cfg[t].indirect THEN pfn.single
    ELSE pfn.all

\* C38: whenever the feature level is native-wait-on-address, the three cached
\* entry points (wait, wake-single, wake-all) are all non-null; and every call
\* through the table, from __crtWaitOnAddress, __crtWakeByAddressSingle or
\* __crtWakeByAddressAll, is made at that level through a non-null entry point
\* and does not end the process.
C38_EntryPointsBeforeLevel ==
    /\ [](apiLevel = __has_wait_on_address => pfn.wait /\ pfn.single /\ pfn.all)
    /\ [][\A t \in Threads :
             (Pc(t) \in {"w_woa", "n_wake"} /\ loc'[t] # loc[t]) =>
                 /\ apiLevel = __has_wait_on_address
                 /\ CalledThrough(t)
                 /\ loc'[t].pc # "abort"]_vars

\* the level was detected as native while a request for the fallback was under
\* way, a wait went through the wait entry point and the wake-single entry
\* point ended it
C38_Witness ==
    /\ apiLevel = __has_wait_on_address
    /\ pfn = Resolved
    /\ \E a \in Threads : cfg[a].role = "admin" /\ loc[a].forced # "none"
    /\ Pc("w1") = "w_woa_true"
    /\ Pc("n1") = "n_done"
    /\ cfg["n1"].one

====
